---- MODULE Spec2Model ----
(***************************************************************************)
(* PRYME-KPI: the spreadsheet-backed stores (Users, Targets, KPI_Records)  *)
(* and the progress engine of src/google_sheets.py, with the displays of   *)
(* src/sales.py, src/admin.py and src/utils.py that render its results.    *)
(*                                                                         *)
(* Conventions of the model                                                *)
(*  - a sheet is the sequence of its data rows (the header row is left     *)
(*    out: every reader skips values[0]); a row is a record of its cells.  *)
(*  - a timestamp is kept to the precision the code reads it at: its month *)
(*    and year (record_date.month / record_date.year), and created_date is *)
(*    the reading of a clock that advances on every target write.          *)
(*  - percentages are integers in hundredths of a percent (round(x, 2)),   *)
(*    sales amounts are whole currency units.                              *)
(*  - a store call that raises (HttpError, timeout) is an input of the     *)
(*    action: the "fault" parameters.                                      *)
(***************************************************************************)
EXTENDS Integers, Sequences, FiniteSets, TLC

VARIABLES users, targets, records, now, clock, result, display,
          calls, admin_sheet, admin_cache, cache_initialized, records_sheet,
          conversations, context_user_data, validated,
          lock_file, lock_path, main_at

vars == <<users, targets, records, now, clock, result, display,
          calls, admin_sheet, admin_cache, cache_initialized, records_sheet,
          conversations, context_user_data, validated,
                 lock_file, lock_path, main_at>>

----------------------------------------------------------------------------
(* Bounds of the model *)

MaxRecords == 2
MaxClock == 2
MaxUsers == 2
MaxAdminRows == 2
MaxInstances == 2

(* The instances of the bot that may be started on one machine *)
Instances == 1..MaxInstances

(* No open lock file (lock_file is None) and no file at the lock's path;
   the files themselves are numbered from 1 *)
NoFile == 0

(* The registered representatives' Telegram ids and names. *)
UserIds == {42, 7}

NameOf(u) == IF u = 42 THEN "Zed" ELSE "Amy"

(* The months the model's clock walks through, in order: the same month in
   two years and two months of one year. *)
Timeline ==
  << [month |-> 3, year |-> 2024],
     [month |-> 2, year |-> 2025],
     [month |-> 3, year |-> 2025] >>

Periods == {Timeline[i] : i \in 1..Len(Timeline)}

(* Python's None *)
None == [kind |-> "None"]

Min(a, b) == IF a <= b THEN a ELSE b

RECURSIVE SumValues(_)
SumValues(s) == IF s = <<>> THEN 0 ELSE Head(s).value + SumValues(Tail(s))

(* round(n / d, 0) as Python rounds: to the nearest, ties to even *)
RoundHalfEven(n, d) ==
  LET q == n \div d
      r == n % d
  IN  IF 2 * r < d THEN q
      ELSE IF 2 * r > d THEN q + 1
      ELSE IF q % 2 = 0 THEN q ELSE q + 1

----------------------------------------------------------------------------
(* Targets store *)

TargetMatches(row, user_id, month, year) ==
  /\ row.user_id = user_id
  /\ row.month = month
  /\ row.year = year

(* get_monthly_targets: the first row of the key, None when there is none or
   when the read raised (both except clauses return None). *)
get_monthly_targets(store, user_id, month, year, readFails) ==
  IF readFails THEN None
  ELSE IF \E i \in 1..Len(store) : TargetMatches(store[i], user_id, month, year)
       THEN LET i == CHOOSE i \in 1..Len(store) :
                       /\ TargetMatches(store[i], user_id, month, year)
                       /\ \A j \in 1..(i - 1) :
                            ~TargetMatches(store[j], user_id, month, year)
            IN  [kind |-> "target"] @@ store[i]
       ELSE None

TargetRow(user_id, month, year, meetup_target, sales_target, current_date) ==
  [user_id |-> user_id, month |-> month, year |-> year,
   meetup_target |-> meetup_target, sales_target |-> sales_target,
   created_date |-> current_date]

(* set_monthly_targets that appends a row whether or not the key has one. *)
set_monthly_targets_appendOnly(store, user_id, month, year, meetup_target, sales_target, current_date, fault) ==
  IF fault = "write" THEN [ok |-> FALSE, store |-> store]
  ELSE [ok |-> TRUE,
        store |-> Append(store, [user_id |-> user_id, month |-> month,
                                 year |-> year, meetup_target |-> meetup_target,
                                 sales_target |-> sales_target,
                                 created_date |-> current_date])]

(* set_monthly_targets: fault "check" is a failed read inside the existence
   check (get_monthly_targets swallows it), fault "write" a failure of the
   later read or of the update/append call (caught: return False). *)
set_monthly_targets(store, user_id, month, year, meetup_target, sales_target, current_date, fault) ==
  LET existing_target ==
        get_monthly_targets(store, user_id, month, year, fault = "check")
      newRow == TargetRow(user_id, month, year, meetup_target, sales_target,
                          current_date)
  IN  IF fault = "write" THEN [ok |-> FALSE, store |-> store]
      ELSE IF existing_target # None
      THEN LET row_index == CHOOSE i \in 1..Len(store) :
                              /\ TargetMatches(store[i], user_id, month, year)
                              /\ \A j \in 1..(i - 1) :
                                   ~TargetMatches(store[j], user_id, month, year)
           IN  [ok |-> TRUE, store |-> [store EXCEPT ![row_index] = newRow]]
      ELSE [ok |-> TRUE, store |-> Append(store, newRow)]

----------------------------------------------------------------------------
(* Record store *)

RecordRow(user_id, record_date, record_type, value, photo_link, submission_date) ==
  [user_id |-> user_id, record_date |-> record_date,
   record_type |-> record_type, value |-> value,
   photo_link |-> photo_link, submission_date |-> submission_date]

(* record_kpi_submission: one row appended, or nothing when the type is not
   one of the two or the append raised. *)
record_kpi_submission(ledger, user_id, record_type, value, photo_link, record_date, submission_date, appendFails) ==
  IF record_type \notin {"meetup", "sale"} THEN [ok |-> FALSE, ledger |-> ledger]
  ELSE IF appendFails THEN [ok |-> FALSE, ledger |-> ledger]
  ELSE [ok |-> TRUE,
        ledger |-> Append(ledger, RecordRow(user_id, record_date, record_type,
                                            value, photo_link, submission_date))]

(* RecordKept with the month and year taken from the submission date. *)
RecordKept_bySubmissionDate(row, user_id, month, year, record_type) ==
  /\ row.user_id = user_id
  /\ ~(month # <<>> /\ row.submission_date.month # month[1])
  /\ ~(year # <<>> /\ row.submission_date.year # year[1])
  /\ ~(record_type # <<>> /\ row.record_type # record_type[1])

(* RecordKept without the test of the row's user. *)
RecordKept_anyUser(row, user_id, month, year, record_type) ==
  /\ ~(month # <<>> /\ row.record_date.month # month[1])
  /\ ~(year # <<>> /\ row.record_date.year # year[1])
  /\ ~(record_type # <<>> /\ row.record_type # record_type[1])

(* An optional argument is <<>> when omitted (None) and <<v>> when given. *)
(* RecordKept without the test of the record type. *)
RecordKept_anyType(row, user_id, month, year, record_type) ==
  /\ row.user_id = user_id
  /\ ~(month # <<>> /\ row.record_date.month # month[1])
  /\ ~(year # <<>> /\ row.record_date.year # year[1])

RecordKept(row, user_id, month, year, record_type) ==
  /\ row.user_id = user_id
  /\ ~(month # <<>> /\ row.record_date.month # month[1])
  /\ ~(year # <<>> /\ row.record_date.year # year[1])
  /\ ~(record_type # <<>> /\ row.record_type # record_type[1])

(* get_user_kpi_records: the user's rows that pass the filters, in ledger
   order; the empty list when the read raised. *)
get_user_kpi_records(ledger, user_id, month, year, record_type, readFails) ==
  IF readFails THEN <<>>
  ELSE SelectSeq(ledger, LAMBDA row : RecordKept(row, user_id, month, year, record_type))

(* The KPI_Records sheet is "missing", "blank" (created, row 1 not yet the
   header row) or "headed".  While it is not headed, row 1 is the first row of
   the ledger, if there is one. *)
SheetStates == {"missing", "blank", "headed"}

(* Where _ensure_sheet_exists can raise; it catches the error itself. *)
EnsureFaults == {"none", "metadata", "add_sheet", "header_read", "header_write"}

(* _ensure_sheet_exists: the sheet is added when missing; row 1 is then
   overwritten with the headers whenever it is not equal to them. *)
ensure_sheet_exists(sheet, rows, fault) ==
  IF sheet = "headed" \/ fault = "metadata" THEN [sheet |-> sheet, rows |-> rows]
  ELSE IF sheet = "missing" /\ fault = "add_sheet" THEN [sheet |-> sheet, rows |-> rows]
  ELSE IF fault \in {"header_read", "header_write"} THEN [sheet |-> "blank", rows |-> rows]
  ELSE [sheet |-> "headed", rows |-> IF rows = <<>> THEN rows ELSE Tail(rows)]

(* values[1:], the rows a reader of the sheet iterates over *)
data_rows(sheet, rows) ==
  IF sheet = "headed" \/ rows = <<>> THEN rows ELSE Tail(rows)

----------------------------------------------------------------------------
(* Progress engine *)

(* Percentage without the clamp to 100. *)
Percentage_unclamped(current, target) ==
  IF target > 0 THEN RoundHalfEven(current * 10000, target) ELSE 0

(* Percentage with a target of 0 counted as met. *)
Percentage_zeroTargetMet(current, target) ==
  IF target > 0
  THEN Min(RoundHalfEven(current * 10000, target), 10000)
  ELSE 10000

(* min((current / target) * 100, 100.0) rounded to two places, in hundredths
   of a percent; 0 when the target is 0. *)
Percentage(current, target) ==
  IF target > 0
  THEN Min(RoundHalfEven(current * 10000, target), 10000)
  ELSE 0

(* calculate_user_progress with a missing target read as a target of 0. *)
calculate_user_progress_zeroTarget(tstore, ledger, user_id, month, year, faults) ==
  LET tgt == get_monthly_targets(tstore, user_id, month, year, "targets" \in faults)
      meetup_records == get_user_kpi_records(ledger, user_id, <<month>>, <<year>>,
                                             <<"meetup">>, "meetup" \in faults)
      sales_records == get_user_kpi_records(ledger, user_id, <<month>>, <<year>>,
                                            <<"sale">>, "sale" \in faults)
      meetup_target == IF tgt = None THEN 0 ELSE tgt.meetup_target
      sales_target == IF tgt = None THEN 0 ELSE tgt.sales_target
  IN  [kind |-> "progress",
       user_id |-> user_id, month |-> month, year |-> year,
       current_meetups |-> SumValues(meetup_records),
       meetup_target |-> meetup_target,
       meetup_percentage |-> Percentage(SumValues(meetup_records), meetup_target),
       current_sales |-> SumValues(sales_records),
       sales_target |-> sales_target,
       sales_percentage |-> Percentage(SumValues(sales_records), sales_target),
       meetup_records_count |-> Len(meetup_records),
       sales_records_count |-> Len(sales_records)]

(* calculate_user_progress: faults names the store reads that raise, among
   "targets" (get_monthly_targets), "meetup" and "sale" (the two
   get_user_kpi_records calls). *)
calculate_user_progress(tstore, ledger, user_id, month, year, faults) ==
  LET tgt == get_monthly_targets(tstore, user_id, month, year, "targets" \in faults)
      meetup_records == get_user_kpi_records(ledger, user_id, <<month>>, <<year>>,
                                             <<"meetup">>, "meetup" \in faults)
      sales_records == get_user_kpi_records(ledger, user_id, <<month>>, <<year>>,
                                            <<"sale">>, "sale" \in faults)
      current_meetups == SumValues(meetup_records)
      current_sales == SumValues(sales_records)
  IN  IF tgt = None THEN None
      ELSE [kind |-> "progress",
            user_id |-> user_id, month |-> month, year |-> year,
            current_meetups |-> current_meetups,
            meetup_target |-> tgt.meetup_target,
            meetup_percentage |-> Percentage(current_meetups, tgt.meetup_target),
            current_sales |-> current_sales,
            sales_target |-> tgt.sales_target,
            sales_percentage |-> Percentage(current_sales, tgt.sales_target),
            meetup_records_count |-> Len(meetup_records),
            sales_records_count |-> Len(sales_records)]

----------------------------------------------------------------------------
(* Users store *)

UserRow(user_id) == [user_id |-> user_id, name |-> NameOf(user_id), role |-> "sales"]

(* get_user_by_id: the first row of the id, None when there is none or when
   the read raised. *)
get_user_by_id(ustore, user_id, readFails) ==
  IF readFails THEN None
  ELSE IF \E i \in 1..Len(ustore) : ustore[i].user_id = user_id
       THEN LET i == CHOOSE i \in 1..Len(ustore) :
                       /\ ustore[i].user_id = user_id
                       /\ \A j \in 1..(i - 1) : ustore[j].user_id # user_id
            IN  [kind |-> "user"] @@ ustore[i]
       ELSE None

(* get_all_users: the rows in sheet order, the empty list when the read
   raised. *)
get_all_users(ustore, readFails) == IF readFails THEN <<>> ELSE ustore

(* the row register_user writes for the data the conversation collected *)
UserData(user_id, name) == [user_id |-> user_id, name |-> name, role |-> "sales"]

(* @retry_google_api(max_retries=3): attempts 0..max_retries *)
max_retries == 3

(* What can go wrong in one attempt of register_user: "check" is a failed
   read inside the duplicate check (get_user_by_id swallows it), "append" an
   append that raises a retryable error, "lost_ack" an append the sheet
   applied whose answer was lost (a timeout), "client_error" a 4xx answer,
   which is not retried. *)
AttemptFaults == {"none", "check", "append", "lost_ack", "client_error"}

FaultAt(plan, attempt) ==
  IF attempt + 1 <= Len(plan) THEN plan[attempt + 1] ELSE "none"

(* register_user without its duplicate check. *)
RECURSIVE register_attempts_noCheck(_, _, _, _)
register_attempts_noCheck(ustore, user_data, plan, attempt) ==
  LET fault == FaultAt(plan, attempt)
      appended == Append(ustore, user_data)
  IN  IF fault = "client_error" THEN [value |-> "raised", store |-> ustore]
      ELSE IF fault \in {"append", "lost_ack"}
      THEN LET left == IF fault = "append" THEN ustore ELSE appended
           IN  IF attempt < max_retries
               THEN register_attempts_noCheck(left, user_data, plan, attempt + 1)
               ELSE [value |-> "raised", store |-> left]
      ELSE [value |-> "True", store |-> appended]

(* retry_on_failure around the body of register_user: the attempt-th run of
   the body under the faults of the plan, and the runs after it. *)
RECURSIVE register_attempts(_, _, _, _)
register_attempts(ustore, user_data, plan, attempt) ==
  LET fault == FaultAt(plan, attempt)
      appended == Append(ustore, user_data)
  IN  IF get_user_by_id(ustore, user_data.user_id, fault = "check") # None
      THEN [value |-> "False", store |-> ustore]
      ELSE IF fault = "client_error" THEN [value |-> "raised", store |-> ustore]
      ELSE IF fault \in {"append", "lost_ack"}
      THEN LET left == IF fault = "append" THEN ustore ELSE appended
           IN  IF attempt < max_retries
               THEN register_attempts(left, user_data, plan, attempt + 1)
               ELSE [value |-> "raised", store |-> left]
      ELSE [value |-> "True", store |-> appended]

(* register_user: False for a duplicate, True after the append, "raised" when
   the last attempt's error reaches the caller. *)
register_user(ustore, user_data, plan) ==
  register_attempts(ustore, user_data, plan, 0)

----------------------------------------------------------------------------
(* Roles: RoleManager of src/auth.py.  A row of the Admin_Config sheet is
   the sequence of its cells, <<user_id>> here, and <<>> once it has been
   cleared. *)

(* ADMIN_USER_IDS, the statically configured administrators *)
EnvAdminIds == {1}

(* _get_admin_ids_from_sheets: the ids of the rows that have a first cell;
   the empty list when the read raised *)
get_admin_ids_from_sheets(sheet, readFails) ==
  IF readFails THEN {}
  ELSE {sheet[i][1] : i \in {j \in 1..Len(sheet) : Len(sheet[j]) >= 1}}

(* _initialize_admin_cache: the ids are added to the cache as it is *)
initialize_admin_cache(cache, sheet, readFails) ==
  [cache |-> cache \cup EnvAdminIds \cup get_admin_ids_from_sheets(sheet, readFails),
   initialized |-> TRUE, value |-> TRUE]

(* is_admin that reloads the cache from the sheet on every call. *)
is_admin_liveQuery(cache, initialized, sheet, user_id, readFails) ==
  LET c == initialize_admin_cache({}, sheet, readFails).cache
  IN  [value |-> user_id \in c, cache |-> c, initialized |-> TRUE,
       store_reads |-> 1]

(* is_admin: initializes the cache when that was not done yet, then tests
   membership; store_reads counts the reads of Admin_Config it made *)
is_admin(cache, initialized, sheet, user_id, readFails) ==
  LET c == IF initialized THEN cache
           ELSE initialize_admin_cache(cache, sheet, readFails).cache
  IN  [value |-> user_id \in c, cache |-> c, initialized |-> TRUE,
       store_reads |-> IF initialized THEN 0 ELSE 1]

(* get_user_role *)
get_user_role(cache, initialized, sheet, user_id, readFails) ==
  IF is_admin(cache, initialized, sheet, user_id, readFails).value
  THEN "admin" ELSE "sales"

(* add_admin: fault "read" is a failed read of the lazy initialization,
   "append" an append that raises, "lost_ack" an append the sheet applied
   whose answer was lost; both are caught: return False *)
add_admin(cache, initialized, sheet, user_id, fault) ==
  LET a == is_admin(cache, initialized, sheet, user_id, fault = "read")
      appended == Append(sheet, <<user_id>>)
  IN  IF a.value
      THEN [value |-> TRUE, cache |-> a.cache, sheet |-> sheet]
      ELSE IF fault = "append"
      THEN [value |-> FALSE, cache |-> a.cache, sheet |-> sheet]
      ELSE IF fault = "lost_ack"
      THEN [value |-> FALSE, cache |-> a.cache, sheet |-> appended]
      ELSE [value |-> TRUE, cache |-> a.cache \cup {user_id}, sheet |-> appended]

(* the loop of remove_admin: the first row whose first cell is the id, 0 for
   None *)
admin_row_index(sheet, user_id) ==
  LET hits == {i \in 1..Len(sheet) : Len(sheet[i]) >= 1 /\ sheet[i][1] = user_id}
  IN  IF hits = {} THEN 0 ELSE CHOOSE i \in hits : \A j \in hits : i <= j

(* remove_admin: fault "read" is a failed read of the sheet (of the lazy
   initialization, then of the row search), "clear" a clear that raises,
   "lost_ack" a clear the sheet applied whose answer was lost *)
remove_admin(cache, initialized, sheet, user_id, fault) ==
  LET a == is_admin(cache, initialized, sheet, user_id, fault = "read")
      row_index == admin_row_index(sheet, user_id)
      cleared == [sheet EXCEPT ![row_index] = <<>>]
  IN  IF ~a.value
      THEN [value |-> TRUE, cache |-> a.cache, sheet |-> sheet]
      ELSE IF fault = "read"
      THEN [value |-> FALSE, cache |-> a.cache, sheet |-> sheet]
      ELSE IF row_index # 0 /\ fault = "clear"
      THEN [value |-> FALSE, cache |-> a.cache, sheet |-> sheet]
      ELSE IF row_index # 0 /\ fault = "lost_ack"
      THEN [value |-> FALSE, cache |-> a.cache, sheet |-> cleared]
      ELSE [value |-> TRUE, cache |-> a.cache \ {user_id},
            sheet |-> IF row_index # 0 THEN cleared ELSE sheet]

(* refresh_admin_cache: clear, then initialize *)
refresh_admin_cache(cache, sheet, readFails) ==
  initialize_admin_cache({}, sheet, readFails)

(* require_role with the roles of exactly the required name let through. *)
access_denied_exactRole(required_role, user_role) ==
  IF required_role # user_role THEN <<required_role>> ELSE <<>>

access_denied_ungated(required_role, user_role) == <<>>

(* require_role: the role named in the denial, <<>> when the command runs *)
access_denied(required_role, user_role) ==
  IF required_role = "admin" /\ user_role # "admin" THEN <<"admin">>
  ELSE IF required_role = "sales" /\ user_role \notin {"admin", "sales"}
  THEN <<"sales">>
  ELSE <<>>

(* handle_access_denied: the message for the required role *)
denial_message(required_role) ==
  IF required_role = "admin"
  THEN "This command is only available to administrators."
  ELSE "You don't have permission to use this command."

(* handle_access_denied: the messages that reach the caller.  The text is
   sent through update.message, or through update.callback_query; an update
   that has neither (an edited message) gets nothing, and an exception of
   the send is caught and logged. *)
handle_access_denied(kind, required_role, sendFails) ==
  IF kind \in {"message", "callback_query"} /\ ~sendFails
  THEN <<denial_message(required_role)>>
  ELSE <<>>

----------------------------------------------------------------------------
(* Displays.  A percentage that a display computes itself is an exact
   fraction <<numerator, denominator>> of a percent. *)

Ratio(current, target) ==
  IF target > 0 THEN <<current * 100, target>> ELSE <<0, 1>>

MeanOf(a, b) == <<a[1] * b[2] + b[1] * a[2], 2 * a[2] * b[2]>>

AtLeast(p, k) == p[1] >= k * p[2]

(* UserProgress.calculate_percentages: min(current / target * 100, 100.0),
   0.0 for a target of 0, not rounded. *)
calculate_percentages(current, target) ==
  IF target > 0
  THEN IF AtLeast(Ratio(current, target), 100) THEN <<100, 1>>
       ELSE Ratio(current, target)
  ELSE <<0, 1>>

(* format_progress_summary's status chain with > in place of >=. *)
summary_status_strict(overall_pct) ==
  IF overall_pct[1] > 100 * overall_pct[2] THEN "All targets achieved!"
  ELSE IF overall_pct[1] > 75 * overall_pct[2] THEN "Excellent progress!"
  ELSE IF overall_pct[1] > 50 * overall_pct[2] THEN "Good progress!"
  ELSE IF overall_pct[1] > 25 * overall_pct[2] THEN "Making progress!"
  ELSE "Just getting started!"

(* format_progress_summary: the status chain *)
summary_status(overall_pct) ==
  IF AtLeast(overall_pct, 100) THEN "All targets achieved!"
  ELSE IF AtLeast(overall_pct, 75) THEN "Excellent progress!"
  ELSE IF AtLeast(overall_pct, 50) THEN "Good progress!"
  ELSE IF AtLeast(overall_pct, 25) THEN "Making progress!"
  ELSE "Just getting started!"

(* format_progress_summary: overall_pct is the mean of the two ratios, each
   0 for a target of 0. *)
format_progress_summary(meetup_current, meetup_target, sales_current, sales_target) ==
  LET meetup_pct == Ratio(meetup_current, meetup_target)
      sales_pct == Ratio(sales_current, sales_target)
      overall_pct == MeanOf(meetup_pct, sales_pct)
  IN  [overall_pct |-> overall_pct, overall_status |-> summary_status(overall_pct)]

(* (progress['meetup_percentage'] + progress['sales_percentage']) / 2 *)
overall_of(progress) ==
  <<progress.meetup_percentage + progress.sales_percentage, 200>>

(* kpi_command: the motivational message *)
kpi_motivation(overall_pct) ==
  IF AtLeast(overall_pct, 100) THEN "Outstanding! You've achieved all your targets!"
  ELSE IF AtLeast(overall_pct, 75) THEN "Excellent progress! You're almost there!"
  ELSE IF AtLeast(overall_pct, 50) THEN "Good progress! You're on the right track!"
  ELSE IF AtLeast(overall_pct, 25) THEN "Making progress! Keep pushing forward!"
  ELSE "Time to accelerate! You've got this!"

(* format_kpi_display: the overall status *)
display_status(overall_pct) ==
  IF AtLeast(overall_pct, 100) THEN "All targets achieved!"
  ELSE IF AtLeast(overall_pct, 75) THEN "Excellent progress!"
  ELSE IF AtLeast(overall_pct, 50) THEN "Good progress!"
  ELSE IF AtLeast(overall_pct, 25) THEN "Making progress!"
  ELSE "Just getting started!"

(* check_select_user: the performance status *)
check_status(overall_pct) ==
  IF AtLeast(overall_pct, 100) THEN "All targets achieved!"
  ELSE IF AtLeast(overall_pct, 75) THEN "Excellent performance!"
  ELSE IF AtLeast(overall_pct, 50) THEN "Good progress!"
  ELSE IF AtLeast(overall_pct, 25) THEN "Making progress!"
  ELSE "Just getting started!"

(* The loop of get_monthly_progress_for_all_users building the list back to
   front. *)
RECURSIVE progress_list_reversed(_, _, _, _, _, _)
progress_list_reversed(all_users, tstore, ledger, month, year, faultsOf) ==
  IF all_users = <<>> THEN <<>>
  ELSE LET user == Head(all_users)
           user_progress ==
             calculate_user_progress(tstore, ledger, user.user_id, month, year,
                                     faultsOf[user.user_id])
           rest == progress_list_reversed(Tail(all_users), tstore, ledger, month,
                                          year, faultsOf)
       IN  IF user_progress # None
           THEN rest \o <<user_progress @@ [name |-> user.name, role |-> user.role]>>
           ELSE rest

(* The loop of get_monthly_progress_for_all_users: one calculate_user_progress
   per listed user, kept with the user's name and role unless it is None. *)
RECURSIVE progress_list(_, _, _, _, _, _)
progress_list(all_users, tstore, ledger, month, year, faultsOf) ==
  IF all_users = <<>> THEN <<>>
  ELSE LET user == Head(all_users)
           user_progress ==
             calculate_user_progress(tstore, ledger, user.user_id, month, year,
                                     faultsOf[user.user_id])
           rest == progress_list(Tail(all_users), tstore, ledger, month, year,
                                 faultsOf)
       IN  IF user_progress # None
           THEN <<user_progress @@ [name |-> user.name, role |-> user.role]>> \o rest
           ELSE rest

(* get_monthly_progress_for_all_users: usersFail is a failed read of the Users
   sheet, faultsOf the failed reads during each user's calculation. *)
get_monthly_progress_for_all_users(ustore, tstore, ledger, month, year, usersFail, faultsOf) ==
  progress_list(get_all_users(ustore, usersFail), tstore, ledger, month, year,
                faultsOf)

----------------------------------------------------------------------------
(* Operations on the stores *)

(* Texts.  A message text is a sequence of characters; the operators below
   are Python's str.strip, int and float on the characters the inputs use. *)

Digits == <<"0", "1", "2", "3", "4", "5", "6", "7", "8", "9">>

isdigit(c) == \E d \in 1..10 : Digits[d] = c

DigitValue(c) == (CHOOSE d \in 1..10 : Digits[d] = c) - 1

RECURSIVE lstrip(_)
lstrip(t) == IF t # <<>> /\ Head(t) = " " THEN lstrip(Tail(t)) ELSE t

RECURSIVE rstrip(_)
rstrip(t) ==
  IF t # <<>> /\ t[Len(t)] = " " THEN rstrip(SubSeq(t, 1, Len(t) - 1)) ELSE t

(* str.strip *)
strip(t) == rstrip(lstrip(t))

RECURSIVE Pow10(_)
Pow10(n) == IF n = 0 THEN 1 ELSE 10 * Pow10(n - 1)

(* the digits of a literal, its underscores dropped *)
DigitsOf(t) == SelectSeq(t, isdigit)

(* a run of digits in which single underscores may separate digits *)
IsDigitRun(t) ==
  /\ t # <<>>
  /\ isdigit(t[1]) /\ isdigit(t[Len(t)])
  /\ \A i \in 1..Len(t) : isdigit(t[i]) \/ t[i] = "_"
  /\ \A i \in 1..(Len(t) - 1) : ~(t[i] = "_" /\ t[i + 1] = "_")

RECURSIVE DigitsValue(_)
DigitsValue(t) ==
  IF t = <<>> THEN 0
  ELSE 10 * DigitsValue(SubSeq(t, 1, Len(t) - 1)) + DigitValue(t[Len(t)])

SignOf(t) == IF t # <<>> /\ t[1] = "-" THEN -1 ELSE 1

Unsigned(t) == IF t # <<>> /\ t[1] \in {"+", "-"} THEN Tail(t) ELSE t

ValueError == [kind |-> "ValueError"]

(* int(text): [kind |-> "int", value |-> n], or ValueError *)
py_int(text) ==
  LET body == Unsigned(strip(text))
  IN  IF IsDigitRun(body)
      THEN [kind |-> "int", value |-> SignOf(strip(text)) * DigitsValue(DigitsOf(body))]
      ELSE ValueError

(* the first position of one of the characters in the text, 0 if none *)
Find(t, chars) ==
  IF \E i \in 1..Len(t) : t[i] \in chars
  THEN CHOOSE i \in 1..Len(t) : t[i] \in chars /\ \A j \in 1..(i - 1) : t[j] \notin chars
  ELSE 0

(* a fraction num/den with den a power of ten, reduced by the tens *)
RECURSIVE Reduce10(_, _)
Reduce10(num, den) ==
  IF den > 1 /\ num % 10 = 0 THEN Reduce10(num \div 10, den \div 10)
  ELSE [kind |-> "float", num |-> num, den |-> den]

(* float(text): the finite value as the fraction num/den, inf, nan, or
   ValueError *)
py_float(text) ==
  LET t == strip(text)
      sign == SignOf(t)
      body == Unsigned(t)
      e == Find(body, {"e", "E"})
      mantissa == IF e = 0 THEN body ELSE SubSeq(body, 1, e - 1)
      exponent == IF e = 0 THEN <<>> ELSE SubSeq(body, e + 1, Len(body))
      dot == Find(mantissa, {"."})
      whole == IF dot = 0 THEN mantissa ELSE SubSeq(mantissa, 1, dot - 1)
      frac == IF dot = 0 THEN <<>> ELSE SubSeq(mantissa, dot + 1, Len(mantissa))
      mantissaOk == /\ whole # <<>> \/ frac # <<>>
                    /\ whole # <<>> => IsDigitRun(whole)
                    /\ frac # <<>> => IsDigitRun(frac)
      exponentOk == e = 0 \/ IsDigitRun(Unsigned(exponent))
      places == Len(DigitsOf(frac))
      digits == DigitsValue(DigitsOf(whole) \o DigitsOf(frac))
      shift == IF e = 0 THEN 0
               ELSE SignOf(exponent) * DigitsValue(DigitsOf(Unsigned(exponent)))
  IN  IF body \in {<<"i", "n", "f">>, <<"i", "n", "f", "i", "n", "i", "t", "y">>}
      THEN [kind |-> "inf", sign |-> sign]
      ELSE IF body = <<"n", "a", "n">> THEN [kind |-> "nan"]
      ELSE IF ~(mantissaOk /\ exponentOk) THEN ValueError
      ELSE IF shift >= places
      THEN [kind |-> "float", num |-> sign * digits * Pow10(shift - places), den |-> 1]
      ELSE Reduce10(sign * digits, Pow10(places - shift))

(* x < n and x > n for a float x and an integer n, as Python compares: every
   comparison with nan is False *)
float_lt(x, n) ==
  IF x.kind = "nan" THEN FALSE
  ELSE IF x.kind = "inf" THEN x.sign < 0
  ELSE x.num < n * x.den

float_gt(x, n) ==
  IF x.kind = "nan" THEN FALSE
  ELSE IF x.kind = "inf" THEN x.sign > 0
  ELSE x.num > n * x.den

(* Conversations.  A ConversationHandler keeps one state for each pair of
   chat and user (per_chat, per_user); context.user_data is one dictionary
   for each user. *)

Chats == {"private", "group"}

(* the administrator and the representative who talk to the bot *)
ConvUsers == {1, 7}

END == "END"

(* the ConversationHandlers in the order they are added to the application *)
ConversationOrder ==
  << "admin_check", "admin_setting", "registration_conversation",
     "meetup_submission_conversation", "sales_submission_conversation" >>

ConversationNames == {ConversationOrder[i] : i \in 1..Len(ConversationOrder)}

NoConversations ==
  [key \in ConversationNames \X Chats \X ConvUsers |-> END]

EmptyDict == [k \in {} |-> 0]

NoUserData == [u \in ConvUsers |-> EmptyDict]

(* d[key] = value, d.pop(key, None) for each of the keys *)
Put(d, key, value) == (key :> value) @@ d

Pop(d, keys) == [k \in DOMAIN d \ keys |-> d[k]]

(* entry_points: the command that starts the conversation, and its callback *)
EntryCommand(h) ==
  CASE h = "admin_check" -> "check"
    [] h = "admin_setting" -> "setting"
    [] h = "registration_conversation" -> "register"
    [] h = "meetup_submission_conversation" -> "submitkpi"
    [] h = "sales_submission_conversation" -> "submitsale"

EntryCallback(h) ==
  CASE h = "admin_check" -> "check_command"
    [] h = "admin_setting" -> "setting_command"
    [] h = "registration_conversation" -> "register_command"
    [] h = "meetup_submission_conversation" -> "submit_kpi_command"
    [] h = "sales_submission_conversation" -> "submit_sale_command"

allow_reentry(h) ==
  h \in {"registration_conversation", "meetup_submission_conversation",
         "sales_submission_conversation"}

(* filters.TEXT & ~filters.COMMAND, filters.COMMAND, filters.PHOTO and the
   patterns of the CallbackQueryHandlers *)
IsText(update) == update.kind = "text"

IsCommand(update) == update.kind = "command"

IsPhoto(update) == update.kind = "photo"

IsSelection(update) ==
  update.kind = "callback" /\ update.data.action \in {"select_user", "cancel_selection"}

IsConfirmation(update) ==
  update.kind = "callback" /\ update.data.action \in {"confirm_targets", "cancel_targets"}

NoCallback == "none"

(* states: the callback of the first handler of the state that takes the
   update *)
StateCallback(h, state, update) ==
  CASE h = "admin_check" /\ state = "CHECK_SELECT_USER" /\ IsSelection(update)
         -> "check_select_user"
    [] h = "admin_setting" /\ state = "SETTING_SELECT_USER" /\ IsSelection(update)
         -> "setting_select_user"
    [] h = "admin_setting" /\ state = "SETTING_INPUT_MEETUP" /\ IsText(update)
         -> "setting_input_meetup"
    [] h = "admin_setting" /\ state = "SETTING_INPUT_SALES" /\ IsText(update)
         -> "setting_input_sales"
    [] h = "admin_setting" /\ state = "SETTING_CONFIRM" /\ IsConfirmation(update)
         -> "setting_confirm"
    [] h = "registration_conversation" /\ state = "REGISTRATION_NAME" /\ IsText(update)
         -> "registration_name"
    [] h = "registration_conversation" /\ state = "REGISTRATION_NATIONALITY" /\ IsText(update)
         -> "registration_nationality"
    [] h = "registration_conversation" /\ state = "REGISTRATION_PHONE" /\ IsText(update)
         -> "registration_phone"
    [] h = "registration_conversation" /\ state = "REGISTRATION_UPLINE" /\ IsText(update)
         -> "registration_upline"
    [] h = "meetup_submission_conversation" /\ state = "MEETUP_CLIENT_COUNT" /\ IsText(update)
         -> "meetup_client_count"
    [] h = "meetup_submission_conversation" /\ state = "MEETUP_PHOTO_UPLOAD"
       /\ (IsPhoto(update) \/ IsText(update))
         -> "meetup_photo_upload"
    [] h = "sales_submission_conversation" /\ state = "SALES_AMOUNT" /\ IsText(update)
         -> "sales_amount_input"
    [] h = "sales_submission_conversation" /\ state = "SALES_PHOTO_UPLOAD"
       /\ (IsPhoto(update) \/ IsText(update))
         -> "sales_photo_upload"
    [] OTHER -> NoCallback

(* fallbacks *)
FallbackCallback(h, update) ==
  CASE h = "admin_check" /\ ((IsCommand(update) /\ update.command = "cancel") \/ IsText(update))
         -> "check_cancel"
    [] h = "admin_setting" /\ IsCommand(update) /\ update.command = "cancel"
         -> "setting_cancel"
    [] h = "registration_conversation" /\ IsCommand(update) -> "registration_cancel"
    [] h = "meetup_submission_conversation" /\ IsCommand(update) -> "meetup_submission_cancel"
    [] h = "sales_submission_conversation" /\ IsCommand(update) -> "sales_submission_cancel"
    [] OTHER -> NoCallback

ConvKey(h, update) == <<h, update.chat, update.user>>

(* ConversationHandler.check_update: the callback that takes the update in
   the conversation's present state, NoCallback when none does *)
HandlerChoice(h, update) ==
  LET state == conversations[ConvKey(h, update)]
      enters == IsCommand(update) /\ update.command = EntryCommand(h)
  IN  IF (state = END \/ allow_reentry(h)) /\ enters THEN EntryCallback(h)
      ELSE IF state = END THEN NoCallback
      ELSE IF StateCallback(h, state, update) # NoCallback
      THEN StateCallback(h, state, update)
      ELSE FallbackCallback(h, update)

(* Application.process_update: the first handler of the group that takes the
   update handles it *)
Dispatch(update) ==
  IF \E i \in 1..Len(ConversationOrder) : HandlerChoice(ConversationOrder[i], update) # NoCallback
  THEN LET i == CHOOSE i \in 1..Len(ConversationOrder) :
                  /\ HandlerChoice(ConversationOrder[i], update) # NoCallback
                  /\ \A j \in 1..(i - 1) : HandlerChoice(ConversationOrder[j], update) = NoCallback
       IN  <<ConversationOrder[i], HandlerChoice(ConversationOrder[i], update)>>
  ELSE <<NoCallback, NoCallback>>

(* The model classes.  A date is a position on the timeline; validate reads
   the clock for "not in the future" and, when it accepts, leaves the
   object's text fields stripped. *)

NotValidated == [class |-> "none"]

StartsWith(t, prefix) ==
  Len(t) >= Len(prefix) /\ SubSeq(t, 1, Len(prefix)) = prefix

(* re.match(r'^[\d\s\+\-\(\)]+$', phone) *)
phone_pattern(phone) ==
  /\ phone # <<>>
  /\ \A i \in 1..Len(phone) : isdigit(phone[i]) \/ phone[i] \in {" ", "+", "-", "(", ")"}

(* User.validate at the time today: accepted, and the fields it leaves *)
User_validate(self, today) ==
  LET accepted ==
        /\ self.user_id > 0
        /\ Len(strip(self.name)) >= 2 /\ Len(strip(self.name)) <= 100
        /\ Len(strip(self.nationality)) >= 2 /\ Len(strip(self.nationality)) <= 50
        /\ strip(self.phone) # <<>>
        /\ phone_pattern(strip(self.phone))
        /\ Len(strip(self.phone)) >= 7 /\ Len(strip(self.phone)) <= 20
        /\ Len(strip(self.upline)) >= 2 /\ Len(strip(self.upline)) <= 100
        /\ ~(self.registration_date > today)
        /\ self.role \in {"admin", "sales"}
  IN  [accepted |-> accepted,
       self |-> IF accepted
                THEN [self EXCEPT !.name = strip(@), !.nationality = strip(@),
                                  !.phone = strip(@), !.upline = strip(@)]
                ELSE self]

(* KPITarget.validate *)
KPITarget_validate(self, today) ==
  [accepted |-> /\ self.user_id > 0
                /\ self.month >= 1 /\ self.month <= 12
                /\ self.year >= 2020 /\ self.year <= 2030
                /\ self.meetup_target >= 0 /\ self.meetup_target <= 1000
                /\ self.sales_target >= 0 /\ self.sales_target <= 1000000
                /\ ~(self.created_date > today),
   self |-> self]

(* KPIRecord.validate *)
KPIRecord_validate(self, today) ==
  LET accepted ==
        /\ self.user_id > 0
        /\ ~(self.record_date > today)
        /\ self.record_type \in {"meetup", "sale"}
        /\ self.record_type = "meetup" => self.value > 0 /\ self.value <= 100
        /\ self.record_type = "sale" => self.value > 0 /\ self.value <= 100000
        /\ strip(self.photo_link) # <<>>
        /\ \/ StartsWith(self.photo_link, <<"h", "t", "t", "p", ":", "/", "/">>)
           \/ StartsWith(self.photo_link, <<"h", "t", "t", "p", "s", ":", "/", "/">>)
        /\ Len(self.photo_link) <= 500
        /\ ~(self.submission_date > today)
  IN  [accepted |-> accepted,
       self |-> IF accepted THEN [self EXCEPT !.photo_link = strip(@)] ELSE self]

NoResult == [op |-> "none"]
NoDisplay == [site |-> "none", outcome |-> "none"]

(* The inputs the operations are tried with. *)
MeetupValues == {2}
SaleValues == {600}
PhotoLink == <<"h", "t", "t", "p", "s", ":", "/", "/", "d", ".", "g", "/", "f">>
ReadFaults == {{}, {"targets"}, {"meetup"}, {"sale"}}

(* The conversations that can have a set_monthly_targets call in flight, and
   a conversation with none.  Init is the spreadsheet with its sheets
   prepared (header rows written) and no data rows, and a RoleManager as
   constructed; on a headed KPI_Records sheet _ensure_sheet_exists changes
   nothing, which is why the readers of the progress engine leave it out. *)
Callers == {"a", "b"}
Idle == [pc |-> "idle"]

Init ==
  /\ conversations = NoConversations
  /\ context_user_data = NoUserData
  /\ validated = NotValidated
  /\ lock_file = [p \in Instances |-> NoFile]
  /\ lock_path = NoFile
  /\ main_at = [p \in Instances |-> "stopped"]
  /\ calls = [c \in Callers |-> Idle]
  /\ admin_sheet = <<>>
  /\ admin_cache = {}
  /\ cache_initialized = FALSE
  /\ records_sheet = "headed"
  /\ users = <<>>
  /\ targets = <<>>
  /\ records = <<>>
  /\ now \in 1..Len(Timeline)
  /\ clock = 0
  /\ result = NoResult
  /\ display = NoDisplay

(* Time passes from one month of the timeline to the next. *)
Tick ==
  /\ now < Len(Timeline)
  /\ now' = now + 1
  /\ result' = NoResult
  /\ UNCHANGED <<users, targets, records, clock, display,
               calls, admin_sheet, admin_cache, cache_initialized, records_sheet, conversations,
                 context_user_data, validated,
                 lock_file, lock_path, main_at>>

(* setting_confirm on confirm_targets: set_monthly_targets for the current
   month, current_date read from the clock. *)
SetMonthlyTargets(user_id, meetup_target, sales_target, fault) ==
  /\ clock < MaxClock
  /\ LET month == Timeline[now].month
         year == Timeline[now].year
         r == set_monthly_targets(targets, user_id, month, year, meetup_target,
                                  sales_target, clock + 1, fault)
     IN  /\ targets' = r.store
         /\ result' = [op |-> "set_monthly_targets", user_id |-> user_id,
                       month |-> month, year |-> year,
                       meetup_target |-> meetup_target,
                       sales_target |-> sales_target,
                       current_date |-> clock + 1, fault |-> fault,
                       before |-> get_monthly_targets(targets, user_id, month,
                                                      year, FALSE),
                       rows_before |->
                         Cardinality({i \in 1..Len(targets) :
                                        TargetMatches(targets[i], user_id, month, year)}),
                       value |-> r.ok]
  /\ clock' = clock + 1
  /\ UNCHANGED <<users, records, now, display,
               calls, admin_sheet, admin_cache, cache_initialized, records_sheet, conversations,
                 context_user_data, validated,
                 lock_file, lock_path, main_at>>

(* record_kpi_submission with an activity date not after the present:
   _ensure_sheet_exists, its result ignored, then the append, which raises
   on a sheet that does not exist. *)
RecordKpiSubmission(user_id, record_type, value, record_date, appendFails) ==
  /\ Len(records) < MaxRecords
  /\ \E ensureFault \in EnsureFaults :
       LET e == ensure_sheet_exists(records_sheet, records, ensureFault)
           r == record_kpi_submission(e.rows, user_id, record_type, value,
                                      PhotoLink, record_date, Timeline[now],
                                      appendFails \/ e.sheet = "missing")
       IN  /\ records' = r.ledger
           /\ records_sheet' = e.sheet
           /\ result' = [op |-> "record_kpi_submission", user_id |-> user_id,
                         value |-> r.ok]
  /\ UNCHANGED <<users, targets, now, clock, display,
               calls, admin_sheet, admin_cache, cache_initialized, conversations,
                 context_user_data, validated,
                 lock_file, lock_path, main_at>>

(* get_user_kpi_records as a call of its own: _ensure_sheet_exists, then the
   read of the sheet. *)
GetUserKpiRecords(user_id, month, year, record_type, ensureFault, readFails) ==
  /\ LET e == ensure_sheet_exists(records_sheet, records, ensureFault)
     IN  /\ records' = e.rows
         /\ records_sheet' = e.sheet
         /\ result' = [op |-> "get_user_kpi_records", user_id |-> user_id,
                       month |-> month, year |-> year,
                       record_type |-> record_type, readFails |-> readFails,
                       value |-> get_user_kpi_records(
                                   data_rows(e.sheet, e.rows), user_id, month, year,
                                   record_type, readFails \/ e.sheet = "missing")]
  /\ UNCHANGED <<users, targets, now, clock, display,
               calls, admin_sheet, admin_cache, cache_initialized, conversations,
                 context_user_data, validated,
                 lock_file, lock_path, main_at>>

(* calculate_user_progress answering from the ledger as it was before the
   last append *)
CalculateUserProgress_stale(user_id, month, year, faults) ==
  /\ result' = [op |-> "calculate_user_progress", user_id |-> user_id,
                month |-> month, year |-> year, faults |-> faults,
                value |-> calculate_user_progress(
                            targets, SubSeq(records, 1, Len(records) - 1),
                            user_id, month, year, faults)]
  /\ UNCHANGED <<users, targets, records, now, clock, display,
                 calls, admin_sheet, admin_cache, cache_initialized,
                 records_sheet, conversations, context_user_data, validated,
                 lock_file, lock_path, main_at>>

CalculateUserProgress(user_id, month, year, faults) ==
  /\ result' = [op |-> "calculate_user_progress", user_id |-> user_id,
                month |-> month, year |-> year, faults |-> faults,
                value |-> calculate_user_progress(targets, records, user_id,
                                                  month, year, faults)]
  /\ UNCHANGED <<users, targets, records, now, clock, display,
               calls, admin_sheet, admin_cache, cache_initialized, records_sheet, conversations,
                 context_user_data, validated,
                 lock_file, lock_path, main_at>>

(* UserProgress.create_from_targets_and_records on the stored target and the
   month's records of a user. *)
CreateUserProgress(user_id, month, year) ==
  /\ get_monthly_targets(targets, user_id, month, year, FALSE) # None
  /\ LET tgt == get_monthly_targets(targets, user_id, month, year, FALSE)
         current_meetups ==
           SumValues(get_user_kpi_records(records, user_id, <<month>>, <<year>>,
                                          <<"meetup">>, FALSE))
         current_sales ==
           SumValues(get_user_kpi_records(records, user_id, <<month>>, <<year>>,
                                          <<"sale">>, FALSE))
     IN  result' = [op |-> "create_from_targets_and_records",
                    user_id |-> user_id, month |-> month, year |-> year,
                    current_meetups |-> current_meetups,
                    meetup_target |-> tgt.meetup_target,
                    meetup_percentage |->
                      calculate_percentages(current_meetups, tgt.meetup_target),
                    current_sales |-> current_sales,
                    sales_target |-> tgt.sales_target,
                    sales_percentage |->
                      calculate_percentages(current_sales, tgt.sales_target)]
  /\ UNCHANGED <<users, targets, records, now, clock, display,
               calls, admin_sheet, admin_cache, cache_initialized, records_sheet, conversations,
                 context_user_data, validated,
                 lock_file, lock_path, main_at>>

(* kpi_command (/kpi): the caller's progress of the current month. *)
KpiCommand(user_id, faults) ==
  /\ LET user_data == get_user_by_id(users, user_id, "users" \in faults)
         progress == calculate_user_progress(targets, records, user_id,
                                             Timeline[now].month,
                                             Timeline[now].year, faults)
     IN  display' =
           IF user_data = None
           THEN [site |-> "kpi_command", user_id |-> user_id, faults |-> faults,
                 outcome |-> "not_registered"]
           ELSE IF progress = None
           THEN [site |-> "kpi_command", user_id |-> user_id, faults |-> faults,
                 outcome |-> "no_targets"]
           ELSE [site |-> "kpi_command", user_id |-> user_id, faults |-> faults,
                 outcome |-> "progress", progress |-> progress,
                 summary |-> format_progress_summary(
                               progress.current_meetups, progress.meetup_target,
                               progress.current_sales, progress.sales_target),
                 overall_pct |-> overall_of(progress),
                 status |-> kpi_motivation(overall_of(progress))]
  /\ UNCHANGED <<users, targets, records, now, clock, result,
               calls, admin_sheet, admin_cache, cache_initialized, records_sheet, conversations,
                 context_user_data, validated,
                 lock_file, lock_path, main_at>>

(* check_select_user (/check): the selected representative's progress of the
   current month. *)
CheckSelectUser(user_id, faults) ==
  /\ LET user_info == get_user_by_id(users, user_id, "users" \in faults)
         progress == calculate_user_progress(targets, records, user_id,
                                             Timeline[now].month,
                                             Timeline[now].year, faults)
     IN  display' =
           IF user_info = None
           THEN [site |-> "check_select_user", user_id |-> user_id,
                 faults |-> faults, outcome |-> "not_found"]
           ELSE IF progress = None
           THEN [site |-> "check_select_user", user_id |-> user_id,
                 faults |-> faults, outcome |-> "no_targets"]
           ELSE [site |-> "check_select_user", user_id |-> user_id,
                 faults |-> faults, outcome |-> "progress", progress |-> progress,
                 summary |-> format_progress_summary(
                               progress.current_meetups, progress.meetup_target,
                               progress.current_sales, progress.sales_target),
                 overall_pct |-> overall_of(progress),
                 status |-> check_status(overall_of(progress))]
  /\ UNCHANGED <<users, targets, records, now, clock, result,
               calls, admin_sheet, admin_cache, cache_initialized, records_sheet, conversations,
                 context_user_data, validated,
                 lock_file, lock_path, main_at>>

(* format_kpi_display on the progress dictionary last calculated. *)
FormatKpiDisplay ==
  /\ result.op = "calculate_user_progress"
  /\ result.value # None
  /\ display' = [site |-> "format_kpi_display", user_id |-> result.user_id,
                 faults |-> result.faults, outcome |-> "progress",
                 progress |-> result.value,
                 overall_pct |-> overall_of(result.value),
                 status |-> display_status(overall_of(result.value))]
  /\ UNCHANGED <<users, targets, records, now, clock, result,
               calls, admin_sheet, admin_cache, cache_initialized, records_sheet, conversations,
                 context_user_data, validated,
                 lock_file, lock_path, main_at>>

(* registration_upline: register_user for the caller. *)
RegisterUser(user_id, name, plan) ==
  /\ Len(users) < MaxUsers
  /\ LET r == register_user(users, UserData(user_id, name), plan)
     IN  /\ users' = r.store
         /\ result' = [op |-> "register_user", user_id |-> user_id,
                       name |-> name, plan |-> plan,
                       before |-> get_user_by_id(users, user_id, FALSE),
                       rows_before |-> Len(users),
                       value |-> r.value]
         /\ display' = [site |-> "registration_upline",
                        outcome |-> IF r.value = "True" THEN "Registration Completed Successfully!"
                                    ELSE IF r.value = "False" THEN "Registration Failed"
                                    ELSE "Failed to complete registration."]
  /\ UNCHANGED <<targets, records, now, clock,
               calls, admin_sheet, admin_cache, cache_initialized, records_sheet, conversations,
                 context_user_data, validated,
                 lock_file, lock_path, main_at>>

(* register_command: the reply to /register *)
RegisterCommand(user_id, readFails) ==
  /\ LET existing_user == get_user_by_id(users, user_id, readFails)
     IN  display' = [site |-> "register_command",
                     outcome |-> IF existing_user # None
                                 THEN "You are already registered"
                                 ELSE "Welcome to KPI Bot Registration!"]
  /\ result' = [op |-> "register_command", user_id |-> user_id]
  /\ UNCHANGED <<users, targets, records, now, clock,
               calls, admin_sheet, admin_cache, cache_initialized, records_sheet, conversations,
                 context_user_data, validated,
                 lock_file, lock_path, main_at>>

----------------------------------------------------------------------------
(* The conversation callbacks.  An update is a record of its chat, its user,
   its kind ("text", "command", "photo", "callback") with the text, command
   or callback data, and deliverable: FALSE when every message the callback
   sends for it raises.  A callback that raises leaves the conversation in
   the state it was in. *)

(* a callback that ends the conversation where it should stay *)
State_ended(h, update) == END

State(h, update) == conversations[ConvKey(h, update)]

Data(update) == context_user_data[update.user]

(* the callback of conversation h returned: the conversation's new state,
   the user's dictionary and the message that reached the chat *)
Returned(h, update, callback, state, data, reply) ==
  /\ conversations' = [conversations EXCEPT ![ConvKey(h, update)] = state]
  /\ context_user_data' = [context_user_data EXCEPT ![update.user] = data]
  /\ display' = [site |-> callback, outcome |-> reply]

(* the callback raised out of its own except clause *)
Raised(h, update, callback, data) ==
  Returned(h, update, callback, State(h, update), data, "nothing")

registration_keys ==
  {"registration_user_id", "registration_name", "registration_nationality",
   "registration_phone", "registration_upline", "registration_start_time"}

(* the checks of the registration fields: "ok" or the complaint *)
registration_name_check(name) ==
  IF name = <<>> \/ Len(name) < 2 THEN "Please enter a valid name (at least 2 characters)."
  ELSE IF Len(name) > 100 THEN "Name is too long (maximum 100 characters)."
  ELSE "ok"

registration_nationality_check(nationality) ==
  IF nationality = <<>> \/ Len(nationality) < 2
  THEN "Please enter a valid nationality (at least 2 characters)."
  ELSE IF Len(nationality) > 50 THEN "Nationality is too long (maximum 50 characters)."
  ELSE "ok"

registration_phone_check(phone) ==
  IF phone = <<>> \/ Len(phone) < 7
  THEN "Please enter a valid phone number (at least 7 digits)."
  ELSE IF Len(phone) > 20 THEN "Phone number is too long (maximum 20 characters)."
  ELSE IF ~\E i \in 1..Len(phone) : isdigit(phone[i])
  THEN "Phone number must contain digits."
  ELSE "ok"

registration_upline_check(upline) ==
  IF upline = <<>> \/ Len(upline) < 2
  THEN "Please enter a valid upline name (at least 2 characters)."
  ELSE IF Len(upline) > 100 THEN "Upline name is too long (maximum 100 characters)."
  ELSE "ok"

(* register_command *)
OnRegisterCommand(update, readFails) ==
  /\ Dispatch(update) = <<"registration_conversation", "register_command">>
  /\ LET existing_user == get_user_by_id(users, update.user, readFails)
         started == Put(Put(Data(update), "registration_user_id", update.user),
                        "registration_start_time", Timeline[now])
     IN  IF ~update.deliverable THEN Raised("registration_conversation", update, "register_command", Data(update))
         ELSE IF existing_user # None
         THEN Returned("registration_conversation", update, "register_command", END, Data(update),
                       "You are already registered")
         ELSE Returned("registration_conversation", update, "register_command", "REGISTRATION_NAME", started,
                       "Welcome to KPI Bot Registration!")
  /\ result' = [op |-> "register_command", update |-> update]
  /\ UNCHANGED <<users, targets, records, now, clock, calls, admin_sheet,
                 admin_cache, cache_initialized, records_sheet, validated,
                 lock_file, lock_path, main_at>>

(* a field callback of the registration: the check, then the value stored
   under its key and the next prompt *)
RegistrationField(update, callback, check, key, next, prompt) ==
  /\ Dispatch(update) = <<"registration_conversation", callback>>
  /\ LET value == strip(update.text)
         state == State("registration_conversation", update)
     IN  IF check # "ok"
         THEN IF update.deliverable
              THEN Returned("registration_conversation", update, callback, state, Data(update), check)
              ELSE Raised("registration_conversation", update, callback, Data(update))
         ELSE IF update.deliverable
              THEN Returned("registration_conversation", update, callback, next, Put(Data(update), key, value), prompt)
              ELSE Raised("registration_conversation", update, callback, Put(Data(update), key, value))
  /\ result' = [op |-> callback, update |-> update, check |-> check,
                state_before |-> State("registration_conversation", update)]
  /\ UNCHANGED <<users, targets, records, now, clock, calls, admin_sheet,
                 admin_cache, cache_initialized, records_sheet, validated,
                 lock_file, lock_path, main_at>>

OnRegistrationName(update) ==
  RegistrationField(update, "registration_name", registration_name_check(strip(update.text)), "registration_name", "REGISTRATION_NATIONALITY", "Now, please enter your nationality:")

OnRegistrationNationality(update) ==
  RegistrationField(update, "registration_nationality", registration_nationality_check(strip(update.text)), "registration_nationality", "REGISTRATION_PHONE", "Now, please enter your phone number")

OnRegistrationPhone(update) ==
  RegistrationField(update, "registration_phone", registration_phone_check(strip(update.text)), "registration_phone", "REGISTRATION_UPLINE", "Finally, please enter your upline's name")

(* registration_upline: the last field, then register_user and the clean-up.
   A missing key raises KeyError into the except clause, which cleans up. *)
OnRegistrationUpline(update, plan) ==
  /\ Dispatch(update) = <<"registration_conversation", "registration_upline">>
  /\ Len(users) < MaxUsers
  /\ LET upline == strip(update.text)
         check == registration_upline_check(upline)
         d == Data(update)
         stored == Put(d, "registration_upline", upline)
         complete == {"registration_user_id", "registration_name",
                      "registration_nationality", "registration_phone"} \subseteq DOMAIN d
         row == [user_id |-> d["registration_user_id"],
                 name |-> d["registration_name"],
                 nationality |-> d["registration_nationality"],
                 phone |-> d["registration_phone"],
                 upline |-> upline,
                 registration_date |-> Timeline[now],
                 role |-> "sales"]
         r == register_user(users, row, plan)
     IN  /\ IF check # "ok"
            THEN /\ IF update.deliverable
                    THEN Returned("registration_conversation", update, "registration_upline", State("registration_conversation", update), d, check)
                    ELSE Raised("registration_conversation", update, "registration_upline", d)
                 /\ users' = users
                 /\ result' = [op |-> "registration_upline", update |-> update,
                               check |-> check, state_before |-> State("registration_conversation", update)]
            ELSE IF ~complete \/ r.value = "raised"
            THEN /\ IF update.deliverable
                    THEN Returned("registration_conversation", update, "registration_upline", END,
                                  Pop(stored, registration_keys),
                                  "Failed to complete registration.")
                    ELSE Raised("registration_conversation", update, "registration_upline", stored)
                 /\ users' = IF complete THEN r.store ELSE users
                 /\ result' = [op |-> "registration_upline", update |-> update,
                               check |-> check, state_before |-> State("registration_conversation", update),
                               value |-> "raised"]
            ELSE /\ IF update.deliverable
                    THEN Returned("registration_conversation", update, "registration_upline", END,
                                  Pop(stored, registration_keys),
                                  IF r.value = "True"
                                  THEN "Registration Completed Successfully!"
                                  ELSE "Registration Failed")
                    ELSE Raised("registration_conversation", update, "registration_upline", stored)
                 /\ users' = r.store
                 /\ result' = [op |-> "registration_upline", update |-> update,
                               check |-> check, state_before |-> State("registration_conversation", update),
                               value |-> r.value, row |-> row]
  /\ UNCHANGED <<targets, records, now, clock, calls, admin_sheet,
                 admin_cache, cache_initialized, records_sheet, validated,
                 lock_file, lock_path, main_at>>

(* registration_cancel: when the message cannot be sent the except clause
   ends the conversation without the clean-up *)
OnRegistrationCancel(update) ==
  /\ Dispatch(update) = <<"registration_conversation", "registration_cancel">>
  /\ IF update.deliverable
     THEN Returned("registration_conversation", update, "registration_cancel", END,
                   Pop(Data(update), registration_keys), "Registration Cancelled")
     ELSE Returned("registration_conversation", update, "registration_cancel", END, Data(update), "nothing")
  /\ result' = [op |-> "registration_cancel", update |-> update]
  /\ UNCHANGED <<users, targets, records, now, clock, calls, admin_sheet,
                 admin_cache, cache_initialized, records_sheet, validated,
                 lock_file, lock_path, main_at>>

(* The submission conversations.  kind is "meetup" or "sale". *)
SubmissionHandler(kind) ==
  IF kind = "meetup" THEN "meetup_submission_conversation"
  ELSE "sales_submission_conversation"

ValueState(kind) == IF kind = "meetup" THEN "MEETUP_CLIENT_COUNT" ELSE "SALES_AMOUNT"

PhotoState(kind) == IF kind = "meetup" THEN "MEETUP_PHOTO_UPLOAD" ELSE "SALES_PHOTO_UPLOAD"

UserIdKey(kind) == IF kind = "meetup" THEN "meetup_user_id" ELSE "sales_user_id"

UserNameKey(kind) == IF kind = "meetup" THEN "meetup_user_name" ELSE "sales_user_name"

StartTimeKey(kind) == IF kind = "meetup" THEN "meetup_start_time" ELSE "sales_start_time"

ValueKey(kind) == IF kind = "meetup" THEN "meetup_client_count" ELSE "sales_amount"

(* cleanup_meetup_context, cleanup_sales_context *)
cleanup_context(kind, d) ==
  Pop(d, {UserIdKey(kind), UserNameKey(kind), ValueKey(kind), StartTimeKey(kind)})

(* meetup_client_count's check with zero let through. *)
meetup_client_count_check_nonNegative(text) ==
  LET client_count == py_int(text)
  IN  IF client_count = ValueError
      THEN [ok |-> FALSE, reply |-> "Please enter a valid number."]
      ELSE IF client_count.value < 0
      THEN [ok |-> FALSE, reply |-> "Please enter a positive number (at least 1)."]
      ELSE IF client_count.value > 100
      THEN [ok |-> FALSE, reply |-> "Please enter a realistic number (maximum 100)."]
      ELSE [ok |-> TRUE, value |-> client_count.value,
            reply |-> "Please upload your photo:"]

(* the check of meetup_client_count: the count, or the complaint *)
meetup_client_count_check(text) ==
  LET client_count == py_int(text)
  IN  IF client_count = ValueError
      THEN [ok |-> FALSE, reply |-> "Please enter a valid number."]
      ELSE IF client_count.value < 1
      THEN [ok |-> FALSE, reply |-> "Please enter a positive number (at least 1)."]
      ELSE IF client_count.value > 100
      THEN [ok |-> FALSE, reply |-> "Please enter a realistic number (maximum 100)."]
      ELSE [ok |-> TRUE, value |-> client_count.value,
            reply |-> "Please upload your photo:"]

(* the value a float is written to the sheet as: a whole number as itself *)
FloatValue(x) == IF x.kind = "float" /\ x.den = 1 THEN x.num ELSE x

(* the check of sales_amount_input: the amount, or the complaint *)
sales_amount_check(text) ==
  LET sales_amount == py_float(text)
  IN  IF sales_amount = ValueError
      THEN [ok |-> FALSE, reply |-> "Please enter a valid number."]
      ELSE IF float_lt(sales_amount, 0)
      THEN [ok |-> FALSE, reply |-> "Please enter a positive amount."]
      ELSE IF float_gt(sales_amount, 1000000)
      THEN [ok |-> FALSE, reply |-> "Please enter a realistic sales amount (maximum $1,000,000)."]
      ELSE [ok |-> TRUE, value |-> FloatValue(sales_amount),
            reply |-> "Please upload your photo:"]

(* submit_kpi_command, submit_sale_command *)
SubmitCommand(kind, callback, update, readFails) ==
  /\ Dispatch(update) = <<SubmissionHandler(kind), callback>>
  /\ LET user == get_user_by_id(users, update.user, readFails)
         d == Data(update)
         started == Put(Put(Put(d, UserIdKey(kind), update.user),
                            UserNameKey(kind), user.name),
                        StartTimeKey(kind), Timeline[now])
     IN  IF ~update.deliverable THEN Raised(SubmissionHandler(kind), update, callback, d)
         ELSE IF user = None
         THEN Returned(SubmissionHandler(kind), update, callback, END, d, "Not Registered")
         ELSE Returned(SubmissionHandler(kind), update, callback, ValueState(kind), started,
                       IF kind = "meetup" THEN "Please enter the number of clients:"
                       ELSE "Please enter the sales amount:")
  /\ result' = [op |-> callback, update |-> update]
  /\ UNCHANGED <<users, targets, records, now, clock, calls, admin_sheet,
                 admin_cache, cache_initialized, records_sheet, validated,
                 lock_file, lock_path, main_at>>

OnSubmitKpiCommand(update, readFails) ==
  SubmitCommand("meetup", "submit_kpi_command", update, readFails)

OnSubmitSaleCommand(update, readFails) ==
  SubmitCommand("sale", "submit_sale_command", update, readFails)

(* meetup_client_count, sales_amount_input *)
SubmissionValue(kind, callback, update, check) ==
  /\ Dispatch(update) = <<SubmissionHandler(kind), callback>>
  /\ LET d == Data(update)
     IN  IF ~check.ok
         THEN IF update.deliverable
              THEN Returned(SubmissionHandler(kind), update, callback, State(SubmissionHandler(kind), update), d, check.reply)
              ELSE Raised(SubmissionHandler(kind), update, callback, d)
         ELSE IF update.deliverable
              THEN Returned(SubmissionHandler(kind), update, callback, PhotoState(kind),
                            Put(d, ValueKey(kind), check.value), check.reply)
              ELSE Raised(SubmissionHandler(kind), update, callback, Put(d, ValueKey(kind), check.value))
  /\ result' = [op |-> callback, update |-> update,
                check |-> IF check.ok THEN "ok" ELSE check.reply,
                state_before |-> State(SubmissionHandler(kind), update)]
  /\ UNCHANGED <<users, targets, records, now, clock, calls, admin_sheet,
                 admin_cache, cache_initialized, records_sheet, validated,
                 lock_file, lock_path, main_at>>

OnMeetupClientCount(update) ==
  SubmissionValue("meetup", "meetup_client_count", update, meetup_client_count_check(update.text))

OnSalesAmountInput(update) ==
  SubmissionValue("sale", "sales_amount_input", update, sales_amount_check(update.text))

(* What the upload of the photo to the drive can give: the link, None, or
   an exception. *)
UploadOutcomes == {"link", "None", "raises"}

(* an upload whose answer is taken for a link whatever it is *)
uploaded_always(upload) == TRUE

(* if not photo_link: the upload failed *)
uploaded(upload) == upload = "link"

(* meetup_photo_upload, sales_photo_upload: a message without a photo is
   asked again; a photo is uploaded, the record is written with the value
   the dictionary holds, and the dictionary is cleaned up. *)
SubmissionPhoto(kind, callback, update, upload, appendFails) ==
  /\ Dispatch(update) = <<SubmissionHandler(kind), callback>>
  /\ Len(records) < MaxRecords
  /\ LET d == Data(update)
         complete == {UserIdKey(kind), ValueKey(kind), UserNameKey(kind)} \subseteq DOMAIN d
         e == ensure_sheet_exists(records_sheet, records, "none")
         r == record_kpi_submission(e.rows, d[UserIdKey(kind)], kind,
                                    d[ValueKey(kind)], PhotoLink, Timeline[now],
                                    Timeline[now], appendFails)
         cleaned == cleanup_context(kind, d)
     IN  IF ~IsPhoto(update)
         THEN /\ IF update.deliverable
                 THEN Returned(SubmissionHandler(kind), update, callback, State(SubmissionHandler(kind), update), d,
                               "Please upload a photo to complete your submission.")
                 ELSE Raised(SubmissionHandler(kind), update, callback, d)
              /\ UNCHANGED <<records, records_sheet>>
              /\ result' = [op |-> callback, update |-> update, check |-> "no photo", upload |-> "not called",
                            state_before |-> State(SubmissionHandler(kind), update)]
         ELSE IF ~update.deliverable
         THEN /\ Raised(SubmissionHandler(kind), update, callback, d)
              /\ UNCHANGED <<records, records_sheet>>
              /\ result' = [op |-> callback, update |-> update, check |-> "raised", upload |-> "not called",
                            state_before |-> State(SubmissionHandler(kind), update)]
         ELSE IF ~complete
         THEN /\ Returned(SubmissionHandler(kind), update, callback, END, cleaned,
                          "Failed to complete submission.")
              /\ UNCHANGED <<records, records_sheet>>
              /\ result' = [op |-> callback, update |-> update, check |-> "KeyError", upload |-> "not called",
                            state_before |-> State(SubmissionHandler(kind), update)]
         ELSE IF ~uploaded(upload)
         THEN /\ Returned(SubmissionHandler(kind), update, callback, END, cleaned,
                          IF upload = "None" THEN "Photo Upload Failed"
                          ELSE "Failed to process photo upload.")
              /\ UNCHANGED <<records, records_sheet>>
              /\ result' = [op |-> callback, update |-> update, check |-> upload, upload |-> upload,
                            state_before |-> State(SubmissionHandler(kind), update)]
         ELSE /\ Returned(SubmissionHandler(kind), update, callback, END, cleaned,
                          IF r.ok THEN "Submitted Successfully!" ELSE "Partial Success")
              /\ records' = r.ledger
              /\ records_sheet' = e.sheet
              /\ result' = [op |-> callback, update |-> update, check |-> "ok", upload |-> upload,
                            state_before |-> State(SubmissionHandler(kind), update),
                            value |-> d[ValueKey(kind)], recorded |-> r.ok]
  /\ UNCHANGED <<users, targets, now, clock, calls, admin_sheet,
                 admin_cache, cache_initialized, validated,
                 lock_file, lock_path, main_at>>

OnMeetupPhotoUpload(update, upload, appendFails) ==
  SubmissionPhoto("meetup", "meetup_photo_upload", update, upload, appendFails)

OnSalesPhotoUpload(update, upload, appendFails) ==
  SubmissionPhoto("sale", "sales_photo_upload", update, upload, appendFails)

(* meetup_submission_cancel, sales_submission_cancel: when the message
   cannot be sent the except clause ends the conversation without the
   clean-up *)
SubmissionCancel(kind, callback, update) ==
  /\ Dispatch(update) = <<SubmissionHandler(kind), callback>>
  /\ IF update.deliverable
     THEN Returned(SubmissionHandler(kind), update, callback, END, cleanup_context(kind, Data(update)),
                   "Submission Cancelled")
     ELSE Returned(SubmissionHandler(kind), update, callback, END, Data(update), "nothing")
  /\ result' = [op |-> callback, update |-> update]
  /\ UNCHANGED <<users, targets, records, now, clock, calls, admin_sheet,
                 admin_cache, cache_initialized, records_sheet, validated,
                 lock_file, lock_path, main_at>>

OnMeetupSubmissionCancel(update) ==
  SubmissionCancel("meetup", "meetup_submission_cancel", update)

OnSalesSubmissionCancel(update) ==
  SubmissionCancel("sale", "sales_submission_cancel", update)

(* The administrator's conversations. *)

(* check_command, setting_command behind require_admin: the denial leaves
   the conversation where it was; otherwise the keyboard of the
   representatives, or the end when there is none. *)
AdminCommand(h, callback, update, readFails, selectState) ==
  /\ Dispatch(update) = <<h, callback>>
  /\ LET a == is_admin(admin_cache, cache_initialized, admin_sheet, update.user, FALSE)
         user_role == get_user_role(admin_cache, cache_initialized, admin_sheet,
                                    update.user, FALSE)
         denied == access_denied("admin", user_role)
         all_users == get_all_users(users, readFails)
         sales_reps == SelectSeq(all_users, LAMBDA row : row.role = "sales")
         d == Data(update)
     IN  /\ admin_cache' = a.cache
         /\ cache_initialized' = a.initialized
         /\ IF denied # <<>>
            THEN Returned(h, update, callback, State(h, update), d,
                          IF update.deliverable THEN denial_message(denied[1])
                          ELSE "nothing")
            ELSE IF ~update.deliverable THEN Raised(h, update, callback, d)
            ELSE IF sales_reps = <<>>
            THEN Returned(h, update, callback, END, d, "No Sales Representatives Found")
            ELSE Returned(h, update, callback, selectState, d,
                          "Choose a sales representative")
  /\ result' = [op |-> callback, update |-> update]
  /\ UNCHANGED <<users, targets, records, now, clock, calls, admin_sheet,
                 records_sheet, validated,
                 lock_file, lock_path, main_at>>

OnCheckCommand(update, readFails) ==
  AdminCommand("admin_check", "check_command", update, readFails, "CHECK_SELECT_USER")

OnSettingCommand(update, readFails) ==
  AdminCommand("admin_setting", "setting_command", update, readFails, "SETTING_SELECT_USER")

(* utils.extract_user_id_from_callback *)
extract_user_id_from_callback(data) ==
  IF data.action = "select_user" THEN data.user_id ELSE 0

(* check_select_user, setting_select_user: the selected id is stored before
   the user is looked up; the check shows the progress and ends, the
   setting stores the name and asks for the meetup target. *)
SelectUser(h, callback, update, readFails) ==
  /\ Dispatch(update) = <<h, callback>>
  /\ LET d == Data(update)
         user_id == extract_user_id_from_callback(update.data)
         selected == Put(d, "selected_user_id", user_id)
         user_info == get_user_by_id(users, user_id, readFails)
         named == Put(selected, "selected_user_name", user_info.name)
     IN  IF ~update.deliverable THEN Raised(h, update, callback, d)
         ELSE IF update.data.action = "cancel_selection"
         THEN Returned(h, update, callback, END, d, "Cancelled")
         ELSE IF user_id = 0
         THEN Returned(h, update, callback, END, d, "Invalid selection.")
         ELSE IF user_info = None
         THEN Returned(h, update, callback, END, selected, "Selected user not found.")
         ELSE IF h = "admin_check"
         THEN Returned(h, update, callback, END, selected, "KPI Progress")
         ELSE Returned(h, update, callback, "SETTING_INPUT_MEETUP", named,
                       "Step 1/2: Enter Meetup Target")
  /\ result' = [op |-> callback, update |-> update]
  /\ UNCHANGED <<users, targets, records, now, clock, calls, admin_sheet,
                 admin_cache, cache_initialized, records_sheet, validated,
                 lock_file, lock_path, main_at>>

OnCheckSelectUser(update, readFails) ==
  SelectUser("admin_check", "check_select_user", update, readFails)

OnSettingSelectUser(update, readFails) ==
  SelectUser("admin_setting", "setting_select_user", update, readFails)

(* the checks of setting_input_meetup and setting_input_sales *)
setting_input_meetup_check(text) ==
  LET meetup_target == py_int(text)
  IN  IF meetup_target = ValueError \/ meetup_target.value < 0 \/ meetup_target.value > 1000
      THEN [ok |-> FALSE, reply |-> "Please enter a valid number between 0 and 1000 for the meetup target."]
      ELSE [ok |-> TRUE, value |-> meetup_target.value,
            reply |-> "Step 2/2: Enter Sales Target"]

setting_input_sales_check(text) ==
  LET sales_target == py_float(text)
  IN  IF sales_target = ValueError \/ float_lt(sales_target, 0) \/ float_gt(sales_target, 1000000)
      THEN [ok |-> FALSE, reply |-> "Please enter a valid number between 0 and 1,000,000 for the sales target."]
      ELSE [ok |-> TRUE, value |-> FloatValue(sales_target),
            reply |-> "Confirm these targets?"]

(* setting_input_meetup, setting_input_sales *)
SettingInput(callback, update, check, key, next) ==
  /\ Dispatch(update) = <<"admin_setting", callback>>
  /\ LET d == Data(update)
     IN  IF ~check.ok
         THEN IF update.deliverable
              THEN Returned("admin_setting", update, callback, State("admin_setting", update), d, check.reply)
              ELSE Raised("admin_setting", update, callback, d)
         ELSE IF update.deliverable
              THEN Returned("admin_setting", update, callback, next, Put(d, key, check.value), check.reply)
              ELSE Raised("admin_setting", update, callback, Put(d, key, check.value))
  /\ result' = [op |-> callback, update |-> update,
                check |-> IF check.ok THEN "ok" ELSE check.reply,
                state_before |-> State("admin_setting", update)]
  /\ UNCHANGED <<users, targets, records, now, clock, calls, admin_sheet,
                 admin_cache, cache_initialized, records_sheet, validated,
                 lock_file, lock_path, main_at>>

OnSettingInputMeetup(update) ==
  SettingInput("setting_input_meetup", update, setting_input_meetup_check(update.text), "meetup_target", "SETTING_INPUT_SALES")

OnSettingInputSales(update) ==
  SettingInput("setting_input_sales", update, setting_input_sales_check(update.text), "sales_target", "SETTING_CONFIRM")

(* setting_confirm: the targets are written for the values the dictionary
   holds; nothing is removed from the dictionary. *)
OnSettingConfirm(update, fault) ==
  /\ Dispatch(update) = <<"admin_setting", "setting_confirm">>
  /\ clock < MaxClock
  /\ LET d == Data(update)
         missing == \/ ~({"selected_user_id", "meetup_target", "sales_target"}
                            \subseteq DOMAIN d)
                    \/ d["selected_user_id"] = 0
         user_id == d["selected_user_id"]
         meetup_target == d["meetup_target"]
         sales_target == d["sales_target"]
         month == Timeline[now].month
         year == Timeline[now].year
         r == set_monthly_targets(targets, user_id, month, year, meetup_target,
                                  sales_target, clock + 1, fault)
     IN  IF ~update.deliverable
         THEN /\ Raised("admin_setting", update, "setting_confirm", d)
              /\ UNCHANGED <<targets, clock>>
              /\ result' = [op |-> "setting_confirm", update |-> update]
         ELSE IF update.data.action = "cancel_targets"
         THEN /\ Returned("admin_setting", update, "setting_confirm", END, d, "Target Setting Cancelled")
              /\ UNCHANGED <<targets, clock>>
              /\ result' = [op |-> "setting_confirm", update |-> update]
         ELSE IF missing
         THEN /\ Returned("admin_setting", update, "setting_confirm", END, d, "Missing target data.")
              /\ UNCHANGED <<targets, clock>>
              /\ result' = [op |-> "setting_confirm", update |-> update]
         ELSE /\ Returned("admin_setting", update, "setting_confirm", END, d,
                          IF r.ok THEN "Targets Set Successfully!"
                          ELSE "Failed to save targets to database.")
              /\ targets' = r.store
              /\ clock' = clock + 1
              /\ result' = [op |-> "setting_confirm", update |-> update,
                            user_id |-> user_id, month |-> month, year |-> year,
                            meetup_target |-> meetup_target,
                            sales_target |-> sales_target, value |-> r.ok]
  /\ UNCHANGED <<users, records, now, calls, admin_sheet, admin_cache,
                 cache_initialized, records_sheet, validated,
                 lock_file, lock_path, main_at>>

(* check_cancel, setting_cancel: no try around the reply *)
AdminCancel(h, callback, update) ==
  /\ Dispatch(update) = <<h, callback>>
  /\ IF update.deliverable
     THEN Returned(h, update, callback, END, Data(update), "Cancelled")
     ELSE Raised(h, update, callback, Data(update))
  /\ result' = [op |-> callback, update |-> update]
  /\ UNCHANGED <<users, targets, records, now, clock, calls, admin_sheet,
                 admin_cache, cache_initialized, records_sheet, validated,
                 lock_file, lock_path, main_at>>

OnCheckCancel(update) == AdminCancel("admin_check", "check_cancel", update)

OnSettingCancel(update) == AdminCancel("admin_setting", "setting_cancel", update)

GetMonthlyProgressForAllUsers(month, year, usersFail, faultsOf) ==
  /\ result' = [op |-> "get_monthly_progress_for_all_users",
                month |-> month, year |-> year, usersFail |-> usersFail,
                faultsOf |-> faultsOf,
                value |-> get_monthly_progress_for_all_users(
                            users, targets, records, month, year, usersFail,
                            faultsOf)]
  /\ UNCHANGED <<users, targets, records, now, clock, display,
               calls, admin_sheet, admin_cache, cache_initialized, records_sheet, conversations,
                 context_user_data, validated,
                 lock_file, lock_path, main_at>>

GetMonthlyTargets(user_id, month, year, readFails) ==
  /\ result' = [op |-> "get_monthly_targets", user_id |-> user_id,
                month |-> month, year |-> year, readFails |-> readFails,
                value |-> get_monthly_targets(targets, user_id, month, year,
                                              readFails)]
  /\ UNCHANGED <<users, targets, records, now, clock, display,
               calls, admin_sheet, admin_cache, cache_initialized, records_sheet, conversations,
                 context_user_data, validated,
                 lock_file, lock_path, main_at>>

(* The progress engine at a fixed present: targets of one representative,
   records of two, progress asked for anybody and any month. *)
Next ==
  \/ SetMonthlyTargets(42, 5, 1000, "none")
  \/ \E u \in UserIds, v \in MeetupValues, d \in 1..now, f \in BOOLEAN :
       RecordKpiSubmission(u, "meetup", v, Timeline[d], f)
  \/ \E u \in UserIds, v \in SaleValues, d \in 1..now, f \in BOOLEAN :
       RecordKpiSubmission(u, "sale", v, Timeline[d], f)
  \/ \E u \in UserIds, p \in Periods, f \in ReadFaults :
       CalculateUserProgress(u, p.month, p.year, f)

Spec == Init /\ [][Next]_vars

----------------------------------------------------------------------------
(* The displays over a store in which representative 42 is registered, may
   have a target for the current month and has submitted meetups and sales in
   it: every such store is one that registration, /setting and the submission
   conversations produce. *)

MeetupTargets == {0, 4, 5, 10}
SalesTargets == {0, 1000}
MeetupSubmissions == {<<>>, <<1>>, <<2>>, <<3>>, <<4>>, <<10>>, <<25>>, <<2, 1, 1>>}
SaleSubmissions == {<<>>, <<500>>, <<600>>, <<1000>>, <<2000>>}
DisplayFaults == ReadFaults \cup {{"users"}}

LedgerOf(user_id, date, meetups, sales) ==
  [i \in 1..(Len(meetups) + Len(sales)) |->
     IF i <= Len(meetups)
     THEN RecordRow(user_id, date, "meetup", meetups[i], PhotoLink, date)
     ELSE RecordRow(user_id, date, "sale", sales[i - Len(meetups)], PhotoLink, date)]

InitDisplay ==
  /\ conversations = NoConversations
  /\ context_user_data = NoUserData
  /\ validated = NotValidated
  /\ lock_file = [p \in Instances |-> NoFile]
  /\ lock_path = NoFile
  /\ main_at = [p \in Instances |-> "stopped"]
  /\ calls = [c \in Callers |-> Idle]
  /\ admin_sheet = <<>>
  /\ admin_cache = {}
  /\ cache_initialized = FALSE
  /\ records_sheet = "headed"
  /\ now = Len(Timeline)
  /\ users = <<UserRow(42)>>
  /\ clock = 1
  /\ \/ targets = <<>>
     \/ \E mt \in MeetupTargets, st \in SalesTargets :
          targets = <<TargetRow(42, Timeline[now].month, Timeline[now].year,
                                mt, st, clock)>>
  /\ \E ms \in MeetupSubmissions, ss \in SaleSubmissions :
       records = LedgerOf(42, Timeline[now], ms, ss)
  /\ result = NoResult
  /\ display = NoDisplay

NextDisplay ==
  \/ \E f \in ReadFaults :
       CalculateUserProgress(42, Timeline[now].month, Timeline[now].year, f)
  \/ CreateUserProgress(42, Timeline[now].month, Timeline[now].year)
  \/ \E u \in UserIds, f \in DisplayFaults : KpiCommand(u, f)
  \/ \E u \in UserIds, f \in DisplayFaults : CheckSelectUser(u, f)
  \/ FormatKpiDisplay

SpecDisplay == InitDisplay /\ [][NextDisplay]_vars

----------------------------------------------------------------------------
(* The fan-out over the registered representatives: registrations, targets
   for anybody, meetups, and the progress of everybody for any month. *)

RegisterFaults == {<<>>, <<"check">>, <<"append", "append", "append", "append">>}
TargetReadFaults == {{}, {"targets"}}

NextAll ==
  \/ \E u \in UserIds, f \in RegisterFaults : RegisterUser(u, NameOf(u), f)
  \/ \E u \in UserIds : SetMonthlyTargets(u, 5, 1000, "none")
  \/ \E v \in MeetupValues : RecordKpiSubmission(7, "meetup", v, Timeline[now], FALSE)
  \/ \E p \in Periods, uf \in BOOLEAN, ff \in [UserIds -> TargetReadFaults] :
       GetMonthlyProgressForAllUsers(p.month, p.year, uf, ff)

SpecAll == Init /\ [][NextAll]_vars

----------------------------------------------------------------------------
(* The Targets store over the months: targets set and set again for two
   representatives, with the failures of the store, and read back. *)

UpsertChoices == {<<10, 500>>, <<20, 1000>>}
WriteFaults == {"none", "check", "write"}

NextUpsert ==
  \/ Tick
  \/ \E u \in UserIds, t \in UpsertChoices, f \in WriteFaults :
       SetMonthlyTargets(u, t[1], t[2], f)
  \/ \E u \in UserIds, p \in Periods, f \in BOOLEAN :
       GetMonthlyTargets(u, p.month, p.year, f)

SpecUpsert == Init /\ [][NextUpsert]_vars

----------------------------------------------------------------------------
(* set_monthly_targets one store call at a time: the existence check, the
   read that locates the row, and the update or append are separate calls on
   the sheet, and calls of several conversations may be in flight at once. *)

(* the row located by the loop of lines 592-599: the first match, 0 for None *)
find_row_index(store, user_id, month, year) ==
  LET hits == {i \in 1..Len(store) : TargetMatches(store[i], user_id, month, year)}
  IN  IF hits = {} THEN 0 ELSE CHOOSE i \in hits : \A j \in hits : i <= j

(* values().update that writes the last row of the sheet *)
update_row_last(store, row_index, row) ==
  [store EXCEPT ![Len(store)] = row]

(* values().update on A{row_index}:F{row_index} *)
update_row(store, row_index, row) ==
  [store EXCEPT ![row_index] = row]

InFlight(c) == calls[c].pc \in {"find", "update", "append"}

(* The other calls in flight overlap with a call that starts. *)
Overlapping(c) ==
  [d \in Callers |->
     IF d # c /\ InFlight(d) THEN [calls[d] EXCEPT !.overlapped = TRUE]
     ELSE calls[d]]

Finished(call, value) == [call EXCEPT !.pc = "done", !.value = value]

(* lines 568-578: the existence check, then current_date *)
SetCheck(c, user_id, meetup_target, sales_target, readFails) ==
  /\ ~InFlight(c)
  /\ clock < MaxClock
  /\ LET month == Timeline[now].month
         year == Timeline[now].year
         existing_target == get_monthly_targets(targets, user_id, month, year,
                                                readFails)
     IN  /\ calls' = [Overlapping(c) EXCEPT ![c] =
                        [pc |-> IF existing_target # None THEN "find" ELSE "append",
                         user_id |-> user_id, month |-> month, year |-> year,
                         meetup_target |-> meetup_target,
                         sales_target |-> sales_target,
                         current_date |-> clock + 1, row_index |-> 0,
                         checked |-> ~readFails,
                         overlapped |-> \E d \in Callers : d # c /\ InFlight(d),
                         value |-> FALSE]]
         /\ result' = [op |-> "set_monthly_targets.check", caller |-> c,
                       user_id |-> user_id, month |-> month, year |-> year]
  /\ clock' = clock + 1
  /\ UNCHANGED <<users, targets, records, now, display,
                 admin_sheet, admin_cache, cache_initialized, records_sheet, conversations,
                 context_user_data, validated,
                 lock_file, lock_path, main_at>>

(* lines 581-599: read the sheet and find the row to update; a failed read
   is caught (return False); no row found returns True without a write *)
SetFind(c, readFails) ==
  /\ calls[c].pc = "find"
  /\ LET call == calls[c]
         row_index == find_row_index(targets, call.user_id, call.month, call.year)
     IN  /\ calls' = [calls EXCEPT ![c] =
                        IF readFails THEN Finished(call, FALSE)
                        ELSE IF row_index = 0 THEN Finished(call, TRUE)
                        ELSE [call EXCEPT !.pc = "update", !.row_index = row_index]]
         /\ result' = [op |-> "set_monthly_targets.find", caller |-> c,
                       user_id |-> call.user_id, month |-> call.month,
                       year |-> call.year]
  /\ UNCHANGED <<users, targets, records, now, clock, display,
                 admin_sheet, admin_cache, cache_initialized, records_sheet, conversations,
                 context_user_data, validated,
                 lock_file, lock_path, main_at>>

(* lines 601-617 (update) and 618-634 (append): the write, or its failure *)
SetWrite(c, writeFails) ==
  /\ calls[c].pc \in {"update", "append"}
  /\ LET call == calls[c]
         row == TargetRow(call.user_id, call.month, call.year,
                          call.meetup_target, call.sales_target, call.current_date)
     IN  /\ targets' = IF writeFails THEN targets
                       ELSE IF call.pc = "update"
                            THEN update_row(targets, call.row_index, row)
                            ELSE Append(targets, row)
         /\ calls' = [calls EXCEPT ![c] = Finished(call, ~writeFails)]
         /\ result' = [op |-> "set_monthly_targets", caller |-> c,
                       user_id |-> call.user_id, month |-> call.month,
                       year |-> call.year, meetup_target |-> call.meetup_target,
                       sales_target |-> call.sales_target,
                       current_date |-> call.current_date,
                       wrote |-> IF writeFails THEN "nothing" ELSE call.pc,
                       value |-> ~writeFails]
  /\ UNCHANGED <<users, records, now, clock, display,
                 admin_sheet, admin_cache, cache_initialized, records_sheet, conversations,
                 context_user_data, validated,
                 lock_file, lock_path, main_at>>

(* The sheets when the calls start: both representatives registered, the
   Targets sheet empty or holding last week's rows for this month. *)
InitRace ==
  /\ conversations = NoConversations
  /\ context_user_data = NoUserData
  /\ validated = NotValidated
  /\ lock_file = [p \in Instances |-> NoFile]
  /\ lock_path = NoFile
  /\ main_at = [p \in Instances |-> "stopped"]
  /\ calls = [c \in Callers |-> Idle]
  /\ admin_sheet = <<>>
  /\ admin_cache = {}
  /\ cache_initialized = FALSE
  /\ records_sheet = "headed"
  /\ now = Len(Timeline)
  /\ users = <<UserRow(42), UserRow(7)>>
  /\ clock = 0
  /\ targets \in {<<>>,
                   <<TargetRow(42, Timeline[now].month, Timeline[now].year, 5, 1000, 0)>>,
                   <<TargetRow(7, Timeline[now].month, Timeline[now].year, 5, 1000, 0),
                     TargetRow(42, Timeline[now].month, Timeline[now].year, 5, 1000, 0)>>}
  /\ records = <<RecordRow(42, Timeline[now], "sale", 600, "", Timeline[now])>>
  /\ result = NoResult
  /\ display = NoDisplay

(* what each conversation's administrator typed *)
ChoiceOf(c) == IF c = "a" THEN <<10, 500>> ELSE <<20, 1000>>

NextRace ==
  \/ \E c \in Callers, u \in UserIds, f \in BOOLEAN :
       SetCheck(c, u, ChoiceOf(c)[1], ChoiceOf(c)[2], f)
  \/ \E c \in Callers, f \in BOOLEAN : SetFind(c, f)
  \/ \E c \in Callers, f \in BOOLEAN : SetWrite(c, f)
  \/ \E v \in MeetupValues, f \in BOOLEAN :
       RecordKpiSubmission(7, "meetup", v, Timeline[now], f)

SpecRace == InitRace /\ [][NextRace]_vars

----------------------------------------------------------------------------
(* Registration: /register and the end of the registration conversation,
   for two Telegram users who may type either of two names, under the
   faults of the Users sheet. *)

TypedNames == {"Zed", "Zoe"}
RegisterPlans == {<<>>, <<"check">>, <<"append">>, <<"lost_ack">>, <<"lost_ack", "check">>, <<"client_error">>, <<"append", "append", "append", "append">>}

NextRegister ==
  \/ \E u \in UserIds, f \in BOOLEAN : RegisterCommand(u, f)
  \/ \E u \in UserIds, n \in TypedNames, plan \in RegisterPlans :
       RegisterUser(u, n, plan)

SpecRegister == Init /\ [][NextRegister]_vars

----------------------------------------------------------------------------
(* The KPI_Records sheet from its creation: submissions and reads on a sheet
   that the first call has to create. *)

InitLedger ==
  /\ conversations = NoConversations
  /\ context_user_data = NoUserData
  /\ validated = NotValidated
  /\ lock_file = [p \in Instances |-> NoFile]
  /\ lock_path = NoFile
  /\ main_at = [p \in Instances |-> "stopped"]
  /\ calls = [c \in Callers |-> Idle]
  /\ admin_sheet = <<>>
  /\ admin_cache = {}
  /\ cache_initialized = FALSE
  /\ records_sheet \in SheetStates
  /\ now = Len(Timeline)
  /\ users = <<UserRow(42), UserRow(7)>>
  /\ clock = 0
  /\ targets = <<>>
  /\ records = <<>>
  /\ result = NoResult
  /\ display = NoDisplay

LedgerValues == {1, 2, 3}

NextLedger ==
  \/ \E u \in UserIds, v \in LedgerValues, f \in BOOLEAN :
       RecordKpiSubmission(u, "meetup", v, Timeline[now], f)
  \/ \E u \in UserIds, ef \in EnsureFaults, f \in BOOLEAN :
       GetUserKpiRecords(u, <<Timeline[now].month>>, <<Timeline[now].year>>,
                         <<"meetup">>, ef, f)

SpecLedger == InitLedger /\ [][NextLedger]_vars

(* The reads of the ledger with every choice of filters: a filter left out
   is <<>>, a filter given is <<its value>>. *)
MonthFilters == {<<>>, <<3>>}
YearFilters == {<<>>, <<2025>>}
TypeFilters == {<<>>, <<"meetup">>, <<"sale">>}

NextReads ==
  \/ \E u \in UserIds, d \in 1..now, f \in BOOLEAN :
       \/ \E v \in MeetupValues : RecordKpiSubmission(u, "meetup", v, Timeline[d], f)
       \/ \E v \in SaleValues : RecordKpiSubmission(u, "sale", v, Timeline[d], f)
  \/ \E u \in UserIds, m \in MonthFilters, y \in YearFilters, t \in TypeFilters, f \in BOOLEAN :
       GetUserKpiRecords(u, m, y, t, "none", f)

SpecReads == Init /\ [][NextReads]_vars

----------------------------------------------------------------------------
(* Roles: the RoleManager from its construction, its operations in any
   order, and the gate in front of the commands. *)

AuthIds == UserIds \cup EnvAdminIds
AdminCommands == {"/check", "/setting"}
SalesCommands == {"/register", "/kpi", "/submitkpi", "/submitsale"}
AddFaults == {"none", "read", "append", "lost_ack"}
RemoveFaults == {"none", "read", "clear", "lost_ack"}

UpdateKinds == {"message", "edited_message"}
RosterIds == get_admin_ids_from_sheets(admin_sheet, FALSE)

InitializeAdminCache(readFails) ==
  /\ LET r == initialize_admin_cache(admin_cache, admin_sheet, readFails)
     IN  /\ admin_cache' = r.cache
         /\ cache_initialized' = r.initialized
         /\ result' = [op |-> "_initialize_admin_cache", readFails |-> readFails,
                       value |-> r.value]
  /\ UNCHANGED <<users, targets, records, now, clock, display, calls,
                 admin_sheet, records_sheet, conversations,
                 context_user_data, validated,
                 lock_file, lock_path, main_at>>

RefreshAdminCache(readFails) ==
  /\ LET r == refresh_admin_cache(admin_cache, admin_sheet, readFails)
     IN  /\ admin_cache' = r.cache
         /\ cache_initialized' = r.initialized
         /\ result' = [op |-> "refresh_admin_cache", readFails |-> readFails,
                       value |-> r.value]
  /\ UNCHANGED <<users, targets, records, now, clock, display, calls,
                 admin_sheet, records_sheet, conversations,
                 context_user_data, validated,
                 lock_file, lock_path, main_at>>

IsAdmin(user_id, readFails) ==
  /\ LET r == is_admin(admin_cache, cache_initialized, admin_sheet, user_id,
                       readFails)
     IN  /\ admin_cache' = r.cache
         /\ cache_initialized' = r.initialized
         /\ result' = [op |-> "is_admin", user_id |-> user_id,
                       cache_before |-> admin_cache,
                       initialized_before |-> cache_initialized,
                       store_reads |-> r.store_reads, value |-> r.value]
  /\ UNCHANGED <<users, targets, records, now, clock, display, calls,
                 admin_sheet, records_sheet, conversations,
                 context_user_data, validated,
                 lock_file, lock_path, main_at>>

AddAdmin(user_id, fault) ==
  /\ Len(admin_sheet) < MaxAdminRows
  /\ LET r == add_admin(admin_cache, cache_initialized, admin_sheet, user_id, fault)
     IN  /\ admin_cache' = r.cache
         /\ admin_sheet' = r.sheet
         /\ result' = [op |-> "add_admin", user_id |-> user_id, fault |-> fault,
                       value |-> r.value]
  /\ cache_initialized' = TRUE
  /\ UNCHANGED <<users, targets, records, now, clock, display, calls,
                 records_sheet, conversations,
                 context_user_data, validated,
                 lock_file, lock_path, main_at>>

RemoveAdmin(user_id, fault) ==
  /\ LET r == remove_admin(admin_cache, cache_initialized, admin_sheet, user_id,
                           fault)
     IN  /\ admin_cache' = r.cache
         /\ admin_sheet' = r.sheet
         /\ result' = [op |-> "remove_admin", user_id |-> user_id, fault |-> fault,
                       value |-> r.value]
  /\ cache_initialized' = TRUE
  /\ UNCHANGED <<users, targets, records, now, clock, display, calls,
                 records_sheet, conversations,
                 context_user_data, validated,
                 lock_file, lock_path, main_at>>

(* require_role around a command: the denial, or the command runs.  The
   entry points are CommandHandlers, which pass new and edited messages. *)
RequireRole(user_id, kind, command, readFails, sendFails) ==
  /\ LET required_role == IF command \in AdminCommands THEN "admin" ELSE "sales"
         r == is_admin(admin_cache, cache_initialized, admin_sheet, user_id,
                       readFails)
         user_role == get_user_role(admin_cache, cache_initialized, admin_sheet,
                                    user_id, readFails)
         denied == access_denied(required_role, user_role)
         sent == IF denied # <<>>
                 THEN handle_access_denied(kind, denied[1], sendFails)
                 ELSE <<>>
     IN  /\ admin_cache' = r.cache
         /\ cache_initialized' = r.initialized
         /\ result' = [op |-> "require_role", user_id |-> user_id,
                       kind |-> kind, command |-> command,
                       required_role |-> required_role,
                       user_role |-> user_role, denied |-> denied,
                       ran |-> (denied = <<>>), sent |-> sent]
         /\ display' = [site |-> "require_role",
                        outcome |-> IF denied = <<>> THEN command
                                    ELSE IF sent # <<>> THEN sent[1]
                                    ELSE "nothing"]
  /\ UNCHANGED <<users, targets, records, now, clock, calls, admin_sheet,
                 records_sheet, conversations,
                 context_user_data, validated,
                 lock_file, lock_path, main_at>>

InitAuth ==
  /\ conversations = NoConversations
  /\ context_user_data = NoUserData
  /\ validated = NotValidated
  /\ lock_file = [p \in Instances |-> NoFile]
  /\ lock_path = NoFile
  /\ main_at = [p \in Instances |-> "stopped"]
  /\ calls = [c \in Callers |-> Idle]
  /\ admin_sheet = <<>>
  /\ admin_cache = {}
  /\ cache_initialized = FALSE
  /\ records_sheet = "headed"
  /\ now = Len(Timeline)
  /\ users = <<>>
  /\ clock = 0
  /\ targets = <<>>
  /\ records = <<>>
  /\ result = NoResult
  /\ display = NoDisplay

NextAuth ==
  \/ \E f \in BOOLEAN : InitializeAdminCache(f)
  \/ \E f \in BOOLEAN : RefreshAdminCache(f)
  \/ \E u \in AuthIds, f \in BOOLEAN : IsAdmin(u, f)
  \/ \E u \in AuthIds, f \in AddFaults : AddAdmin(u, f)
  \/ \E u \in AuthIds, f \in RemoveFaults : RemoveAdmin(u, f)
  \/ \E u \in AuthIds, k \in UpdateKinds, c \in AdminCommands \cup SalesCommands, f \in BOOLEAN, sf \in BOOLEAN :
       RequireRole(u, k, c, f, sf)

SpecAuth == InitAuth /\ [][NextAuth]_vars

----------------------------------------------------------------------------
(* The conversations: the representative 7 registers and submits, the
   administrator 1 checks and sets targets, each in a private chat. *)

NameTexts == { <<"A", "m", "y">>, <<"A", " ">> }

NationalityTexts == { <<"M", "Y">>, <<"M">> }

PhoneTexts ==
  { <<"5", "5", "5", "1", "2", "3", "4">>,
    <<"+", "1", " ", "(", "5", "5", ")", " ", "1", "-", "2">>,
    <<"a", "b", "c", "d", "e", "f", "1">>,
    <<"1", "2", "3", "4", "5", "6">>,
    <<"-", "-", "-", "-", "-", "-", "-">>,
    <<"1", "2", "3", "4", "5", "6", "7", "8", "9", "0", "1", "2", "3", "4", "5", "6", "7", "8", "9", "0", "1">> }

UplineTexts == { <<"Z", "e", "d">>, <<" ">> }

MeetupTexts ==
  { <<"1">>, <<"1", "0", "0">>, <<"0">>, <<"-", "3">>, <<"3", ".", "5">>,
    <<"1", "0", "1">>, <<"a", "b">> }

SaleTexts ==
  { <<"6", "0", "0">>, <<"0">>, <<"2", "e", "5">>, <<"-", "1">>,
    <<"1", "0", "0", "0", "0", "0", "1">>, <<"i", "n", "f">>, <<"a", "b">> }

MeetupTargetTexts == { <<"1", "0">>, <<"-", "1">>, <<"1", "0", "0", "1">>, <<"x">> }

SalesTargetTexts == { <<"5", "0", "0">>, <<"-", "1">>, <<"x">> }

TextUpdate(chat, user, text, deliverable) ==
  [kind |-> "text", user |-> user, text |-> text, chat |-> chat,
   deliverable |-> deliverable]

CommandUpdate(chat, user, command, deliverable) ==
  [kind |-> "command", user |-> user, command |-> command, chat |-> chat,
   deliverable |-> deliverable]

PhotoUpdate(chat, user, deliverable) ==
  [kind |-> "photo", user |-> user, chat |-> chat, deliverable |-> deliverable]

CallbackUpdate(chat, user, data, deliverable) ==
  [kind |-> "callback", user |-> user, data |-> data, chat |-> chat,
   deliverable |-> deliverable]

Selections ==
  {[user_id |-> u, action |-> "select_user"] : u \in UserIds}
    \cup {[action |-> "cancel_selection"]}

Confirmations == {[action |-> "confirm_targets"], [action |-> "cancel_targets"]}

(* Validation.  The checks of the conversations' fields, by the key the
   value is stored under: accepted or not. *)
field_check(field, text) ==
  CASE field = "registration_name" -> registration_name_check(strip(text)) = "ok"
    [] field = "registration_nationality" -> registration_nationality_check(strip(text)) = "ok"
    [] field = "registration_phone" -> registration_phone_check(strip(text)) = "ok"
    [] field = "registration_upline" -> registration_upline_check(strip(text)) = "ok"
    [] field = "meetup_client_count" -> meetup_client_count_check(text).ok
    [] field = "sales_amount" -> sales_amount_check(text).ok
    [] field = "meetup_target" -> setting_input_meetup_check(text).ok
    [] field = "sales_target" -> setting_input_sales_check(text).ok

FieldTexts(field) ==
  CASE field = "registration_name" -> NameTexts
    [] field = "registration_nationality" -> NationalityTexts
    [] field = "registration_phone" -> PhoneTexts
    [] field = "registration_upline" -> UplineTexts
    [] field = "meetup_client_count" -> MeetupTexts
    [] field = "sales_amount" -> SaleTexts
    [] field = "meetup_target" -> MeetupTargetTexts
    [] field = "sales_target" -> SalesTargetTexts

Fields ==
  {"registration_name", "registration_nationality", "registration_phone",
   "registration_upline", "meetup_client_count", "sales_amount",
   "meetup_target", "sales_target"}

Dates == 1..Len(Timeline)

UserInputs ==
  {[user_id |-> 7, name |-> n, nationality |-> <<"M", "Y">>, phone |-> ph,
    upline |-> <<"Z", "e", "d">>, registration_date |-> d, role |-> "sales"] :
     n \in {<<"A", "m", "y">>, <<" ", "A", "m", "y">>},
     ph \in {<<"5", "5", "5", "1", "2", "3", "4">>, <<"a", "b", "c", "d", "e", "f", "1">>},
     d \in Dates}

TargetInputs ==
  {[user_id |-> 7, month |-> 3, year |-> 2025, meetup_target |-> mt,
    sales_target |-> 500, created_date |-> d] : mt \in {10, 1001}, d \in Dates}

LinkInputs ==
  {<<"h", "t", "t", "p", ":", "/", "/", "x">>,
   <<"h", "t", "t", "p", ":", "/", "/", "x", " ">>,
   <<"f", "t", "p", ":", "/", "/", "x">>}

RecordInputs ==
  {[user_id |-> 7, record_date |-> d, record_type |-> t, value |-> v,
    photo_link |-> l, submission_date |-> d] :
     d \in Dates, t \in {"meetup", "sale"}, v \in {0, 100, 101}, l \in LinkInputs}

(* one validation: what was validated and when, the verdict, the object as
   the call left it, and the verdict of the validation before it when that
   one was given the same input *)
Validation(class, input, r) ==
  /\ validated' = [class |-> class, input |-> input, at |-> now,
                   accepted |-> r.accepted, self |-> r.self,
                   previous |-> IF validated.class = class /\ validated.input = input
                                THEN <<validated.accepted>> ELSE <<>>]
  /\ result' = [op |-> "validate", class |-> class]
  /\ UNCHANGED <<users, targets, records, now, clock, display, calls,
                 admin_sheet, admin_cache, cache_initialized, records_sheet,
                 conversations, context_user_data, lock_file, lock_path, main_at>>

ValidateUser(self) == Validation("User", self, User_validate(self, now))

ValidateTarget(self) == Validation("KPITarget", self, KPITarget_validate(self, now))

ValidateRecord(self) == Validation("KPIRecord", self, KPIRecord_validate(self, now))

CheckField(field, text) ==
  Validation(field, text, [accepted |-> field_check(field, text), self |-> text])

NextValidate ==
  \/ Tick
  \/ \E self \in UserInputs : ValidateUser(self)
  \/ \E self \in TargetInputs : ValidateTarget(self)
  \/ \E self \in RecordInputs : ValidateRecord(self)
  \/ \E field \in Fields : \E text \in FieldTexts(field) : CheckField(field, text)

SpecValidate == Init /\ [][NextValidate]_vars

(* the updates of a user in a chat that the registration's callbacks take *)
RegistrationCallbacks(c, u, ok) ==
  \/ \E f \in BOOLEAN : OnRegisterCommand(CommandUpdate(c, u, "register", ok), f)
  \/ \E t \in NameTexts : OnRegistrationName(TextUpdate(c, u, t, ok))
  \/ \E t \in NationalityTexts : OnRegistrationNationality(TextUpdate(c, u, t, ok))
  \/ \E t \in PhoneTexts : OnRegistrationPhone(TextUpdate(c, u, t, ok))
  \/ \E t \in UplineTexts, plan \in RegisterFaults : OnRegistrationUpline(TextUpdate(c, u, t, ok), plan)
  \/ OnRegistrationCancel(CommandUpdate(c, u, "cancel", ok))

(* the updates that the submissions' callbacks take *)
MeetupCallbacks(c, u, ok) ==
  \/ \E f \in BOOLEAN : OnSubmitKpiCommand(CommandUpdate(c, u, "submitkpi", ok), f)
  \/ \E t \in MeetupTexts : OnMeetupClientCount(TextUpdate(c, u, t, ok))
  \/ \E up \in UploadOutcomes, f \in BOOLEAN : OnMeetupPhotoUpload(PhotoUpdate(c, u, ok), up, f)
  \/ OnMeetupPhotoUpload(TextUpdate(c, u, <<"a", "b">>, ok), "link", FALSE)
  \/ \E k \in {"cancel", "submitsale"} : OnMeetupSubmissionCancel(CommandUpdate(c, u, k, ok))

SalesCallbacks(c, u, ok) ==
  \/ \E f \in BOOLEAN : OnSubmitSaleCommand(CommandUpdate(c, u, "submitsale", ok), f)
  \/ \E t \in SaleTexts : OnSalesAmountInput(TextUpdate(c, u, t, ok))
  \/ \E up \in UploadOutcomes, f \in BOOLEAN : OnSalesPhotoUpload(PhotoUpdate(c, u, ok), up, f)
  \/ OnSalesPhotoUpload(TextUpdate(c, u, <<"a", "b">>, ok), "link", FALSE)
  \/ OnSalesSubmissionCancel(CommandUpdate(c, u, "cancel", ok))

(* the updates that the administrator's callbacks take *)
AdminCallbacks(c, u, ok) ==
  \/ \E f \in BOOLEAN : OnCheckCommand(CommandUpdate(c, u, "check", ok), f)
  \/ \E d \in Selections, f \in BOOLEAN : OnCheckSelectUser(CallbackUpdate(c, u, d, ok), f)
  \/ OnCheckCancel(CommandUpdate(c, u, "cancel", ok))
  \/ OnCheckCancel(TextUpdate(c, u, <<"x">>, ok))
  \/ \E f \in BOOLEAN : OnSettingCommand(CommandUpdate(c, u, "setting", ok), f)
  \/ \E d \in Selections, f \in BOOLEAN : OnSettingSelectUser(CallbackUpdate(c, u, d, ok), f)
  \/ \E t \in MeetupTargetTexts : OnSettingInputMeetup(TextUpdate(c, u, t, ok))
  \/ \E t \in SalesTargetTexts : OnSettingInputSales(TextUpdate(c, u, t, ok))
  \/ \E d \in Confirmations, f \in {"none", "write"} : OnSettingConfirm(CallbackUpdate(c, u, d, ok), f)
  \/ OnSettingCancel(CommandUpdate(c, u, "cancel", ok))

(* The sheets and the roles when the conversations begin: 42 is registered,
   7 is or is not, the configured administrator is in the cache. *)
ConvStart(ustore) ==
  /\ conversations = NoConversations
  /\ context_user_data = NoUserData
  /\ validated = NotValidated
  /\ lock_file = [p \in Instances |-> NoFile]
  /\ lock_path = NoFile
  /\ main_at = [p \in Instances |-> "stopped"]
  /\ calls = [c \in Callers |-> Idle]
  /\ admin_sheet = <<>>
  /\ admin_cache = EnvAdminIds
  /\ cache_initialized = TRUE
  /\ records_sheet = "headed"
  /\ users = ustore
  /\ targets = <<>>
  /\ records = <<>>
  /\ now = Len(Timeline)
  /\ clock = 0
  /\ result = NoResult
  /\ display = NoDisplay

InitRegistration == ConvStart(<<UserRow(42)>>)

NextRegistration == \E ok \in BOOLEAN : RegistrationCallbacks("private", 7, ok)

SpecRegistration == InitRegistration /\ [][NextRegistration]_vars

InitSubmit == ConvStart(<<UserRow(42), UserRow(7)>>)

NextSales == \E ok \in BOOLEAN : SalesCallbacks("private", 7, ok)

SpecSales == InitSubmit /\ [][NextSales]_vars

(* both submissions of representative 7 in the private chat, every reply
   delivered *)
NextUploads == MeetupCallbacks("private", 7, TRUE) \/ SalesCallbacks("private", 7, TRUE)

SpecUploads == InitSubmit /\ [][NextUploads]_vars

(* The field inputs of the four conversations with several steps: 7
   registers and then submits, the administrator 1 sets targets; the
   conversations are entered, given their fields and cancelled. *)
NextFields ==
  \/ OnRegisterCommand(CommandUpdate("private", 7, "register", TRUE), FALSE)
  \/ \E ok \in BOOLEAN :
       \/ \E t \in NameTexts : OnRegistrationName(TextUpdate("private", 7, t, ok))
       \/ \E t \in NationalityTexts : OnRegistrationNationality(TextUpdate("private", 7, t, ok))
       \/ \E t \in PhoneTexts : OnRegistrationPhone(TextUpdate("private", 7, t, ok))
       \/ \E t \in UplineTexts : OnRegistrationUpline(TextUpdate("private", 7, t, ok), <<>>)
       \/ \E t \in MeetupTexts : OnMeetupClientCount(TextUpdate("private", 7, t, ok))
       \/ \E t \in SaleTexts : OnSalesAmountInput(TextUpdate("private", 7, t, ok))
       \/ \E t \in MeetupTargetTexts : OnSettingInputMeetup(TextUpdate("private", 1, t, ok))
       \/ \E t \in SalesTargetTexts : OnSettingInputSales(TextUpdate("private", 1, t, ok))
  \/ OnRegistrationCancel(CommandUpdate("private", 7, "cancel", TRUE))
  \/ OnSubmitKpiCommand(CommandUpdate("private", 7, "submitkpi", TRUE), FALSE)
  \/ OnMeetupSubmissionCancel(CommandUpdate("private", 7, "cancel", TRUE))
  \/ OnSubmitSaleCommand(CommandUpdate("private", 7, "submitsale", TRUE), FALSE)
  \/ OnSalesSubmissionCancel(CommandUpdate("private", 7, "cancel", TRUE))
  \/ OnSettingCommand(CommandUpdate("private", 1, "setting", TRUE), FALSE)
  \/ OnSettingSelectUser(CallbackUpdate("private", 1, [user_id |-> 42, action |-> "select_user"], TRUE), FALSE)
  \/ OnSettingCancel(CommandUpdate("private", 1, "cancel", TRUE))

SpecFields == InitRegistration /\ [][NextFields]_vars

NextSetting == \E u \in ConvUsers, ok \in BOOLEAN : AdminCallbacks("private", u, ok)

SpecSetting == InitSubmit /\ [][NextSetting]_vars

(* the administrator and the representative in a group they share, where
   each sees the other's keyboards *)
NextGate == \E u \in ConvUsers, ok \in BOOLEAN : AdminCallbacks("group", u, ok)

SpecGate == InitSubmit /\ [][NextGate]_vars

(* the administrator's conversations when one of the ids a button can carry,
   7, is not in the Users sheet *)
SpecUnregistered == InitRegistration /\ [][NextSetting]_vars

NextChats == \E c \in Chats, ok \in BOOLEAN : MeetupCallbacks(c, 7, ok)

SpecChats == InitSubmit /\ [][NextChats]_vars

----------------------------------------------------------------------------
(* Properties of the progress engine (checked under Spec) *)

Calculated == result.op = "calculate_user_progress"

(* The ledger rows of a user, a type and a month, read off the ledger. *)
RowsOf(user_id, month, year, record_type) ==
  {i \in 1..Len(records) :
     /\ records[i].user_id = user_id
     /\ records[i].record_type = record_type
     /\ records[i].record_date.month = month
     /\ records[i].record_date.year = year}

RECURSIVE SumOfRows(_)
SumOfRows(I) ==
  IF I = {} THEN 0
  ELSE LET i == CHOOSE i \in I : TRUE
       IN  records[i].value + SumOfRows(I \ {i})

HasTargetRow(user_id, month, year) ==
  \E i \in 1..Len(targets) :
    /\ targets[i].user_id = user_id
    /\ targets[i].month = month
    /\ targets[i].year = year

(* C1: calculate_user_progress returns None whenever the Targets sheet has no
   row for (user_id, month, year), whatever records exist and whatever read
   fails; it is never a progress result (a 0% one included). *)
C1_AbsentWithoutTarget ==
  (Calculated /\ ~HasTargetRow(result.user_id, result.month, result.year))
    => (result.value = None /\ result.value.kind # "progress")

(* C1 witness: progress was asked for a representative who never had a target,
   in a month in which that representative has records and somebody else has a
   target, and the answer is None. *)
C1_Witness ==
  /\ Calculated
  /\ result.faults = {}
  /\ \A i \in 1..Len(targets) : targets[i].user_id # result.user_id
  /\ HasTargetRow(42, result.month, result.year)
  /\ RowsOf(result.user_id, result.month, result.year, "meetup") # {}
  /\ result.value = None

(* C4: when the reads of the call succeed, the records a progress result
   counts are exactly the user's rows whose record_date lies in the month and
   year asked for: the two counts are the numbers of such rows, so a row dated
   in another month or year is never counted, whatever its submission_date. *)
C4_CountsByRecordDate ==
  (Calculated /\ result.faults = {} /\ result.value # None)
    => /\ result.value.meetup_records_count =
            Cardinality(RowsOf(result.user_id, result.month, result.year, "meetup"))
       /\ result.value.sales_records_count =
            Cardinality(RowsOf(result.user_id, result.month, result.year, "sale"))

(* C4 witness: a progress result for a month M whose ledger holds a row of the
   user submitted in M for an activity of another month, and a row of M; only
   the latter is counted. *)
C4_Witness ==
  /\ Calculated /\ result.faults = {} /\ result.value # None
  /\ \E i, j \in 1..Len(records) :
       /\ records[i].user_id = result.user_id
       /\ records[i].submission_date = [month |-> result.month, year |-> result.year]
       /\ records[i].record_date # records[i].submission_date
       /\ records[j].user_id = result.user_id
       /\ records[j].record_date = [month |-> result.month, year |-> result.year]
  /\ result.value.meetup_records_count + result.value.sales_records_count = 1

(* C5: when the reads of the call succeed, current_meetups is the sum of the
   values of the user's meetup rows of the month and current_sales the sum of
   the user's sale rows of the month; no other row contributes. *)
C5_SumsOfOwnRecords ==
  (Calculated /\ result.faults = {} /\ result.value # None)
    => /\ result.value.current_meetups =
            SumOfRows(RowsOf(result.user_id, result.month, result.year, "meetup"))
       /\ result.value.current_sales =
            SumOfRows(RowsOf(result.user_id, result.month, result.year, "sale"))

(* C5 witness: a progress result of 2 meetups (40% of 5) and no sales for a
   user, while the ledger holds a sale of another user in the same month. *)
C5_Witness ==
  /\ Calculated /\ result.faults = {} /\ result.value # None
  /\ result.value.current_meetups = 2
  /\ result.value.meetup_percentage = 4000
  /\ result.value.current_sales = 0
  /\ \E i \in 1..Len(records) :
       /\ records[i].user_id # result.user_id
       /\ records[i].record_type = "sale"
       /\ records[i].record_date = [month |-> result.month, year |-> result.year]

(* C8: a calculate_user_progress during which a Targets or KPI_Records read
   failed ends in an outcome that is neither None ("no target set") nor a
   progress result. *)
C8_FailureIsDistinct ==
  (Calculated /\ result.faults # {}) => result.value.kind \notin {"None", "progress"}

----------------------------------------------------------------------------
(* Properties of the percentages and of the displays (checked under
   SpecDisplay) *)

Shown == display.outcome = "progress"

WithSummary == Shown /\ display.site \in {"kpi_command", "check_select_user"}

(* A percentage of calculate_user_progress, in hundredths, is within bounds
   and is 100 once the sum exceeds a positive target. *)
ClampedHundredths(pct, current, target) ==
  /\ 0 <= pct /\ pct <= 10000
  /\ (target > 0 /\ current > target) => pct = 10000

ClampedFraction(pct, current, target) ==
  /\ 0 <= pct[1] /\ pct[1] <= 100 * pct[2]
  /\ (target > 0 /\ current > target) => pct[1] = 100 * pct[2]

(* C2: every progress result, of calculate_user_progress and of
   UserProgress.calculate_percentages, has both percentages within [0, 100],
   and exactly 100 when the summed records exceed the target. *)
C2_PercentagesClamped ==
  /\ (Calculated /\ result.value # None)
       => /\ ClampedHundredths(result.value.meetup_percentage,
                               result.value.current_meetups,
                               result.value.meetup_target)
          /\ ClampedHundredths(result.value.sales_percentage,
                               result.value.current_sales,
                               result.value.sales_target)
  /\ result.op = "create_from_targets_and_records"
       => /\ ClampedFraction(result.meetup_percentage, result.current_meetups,
                             result.meetup_target)
          /\ ClampedFraction(result.sales_percentage, result.current_sales,
                             result.sales_target)
  /\ Shown
       => /\ ClampedHundredths(display.progress.meetup_percentage,
                               display.progress.current_meetups,
                               display.progress.meetup_target)
          /\ ClampedHundredths(display.progress.sales_percentage,
                               display.progress.current_sales,
                               display.progress.sales_target)

(* C2 witness: target 10, meetup records summing to 25, meetup_percentage
   100.00; and sales of 2000 against 1000 at 100.00 too. *)
C2_Witness ==
  /\ Calculated /\ result.value # None
  /\ result.value.meetup_target = 10
  /\ result.value.current_meetups = 25
  /\ result.value.meetup_percentage = 10000
  /\ result.value.current_sales = 2000
  /\ result.value.sales_percentage = 10000

(* C3: a target of 0 gives a percentage of 0 whatever the sum of the records
   is, in calculate_user_progress and in UserProgress.calculate_percentages. *)
C3_ZeroTargetIsZero ==
  /\ (Calculated /\ result.value # None)
       => /\ result.value.meetup_target = 0 => result.value.meetup_percentage = 0
          /\ result.value.sales_target = 0 => result.value.sales_percentage = 0
  /\ result.op = "create_from_targets_and_records"
       => /\ result.meetup_target = 0 => result.meetup_percentage[1] = 0
          /\ result.sales_target = 0 => result.sales_percentage[1] = 0

(* C3 witness: a progress result for targets (0, 0) with 25 meetups and 2000
   of sales recorded, both percentages 0. *)
C3_Witness ==
  /\ Calculated /\ result.value # None
  /\ result.value.meetup_target = 0 /\ result.value.current_meetups = 25
  /\ result.value.sales_target = 0 /\ result.value.current_sales = 2000
  /\ result.value.meetup_percentage = 0 /\ result.value.sales_percentage = 0

(* min(current / target * 100, 100), 0 for a target of 0, as an exact
   fraction: the clamped percentage of the specification. *)
ClampedPct(current, target) ==
  IF target <= 0 THEN <<0, 1>>
  ELSE IF current >= target THEN <<100, 1>>
  ELSE <<current * 100, target>>

SameFraction(p, q) == p[1] * q[2] = q[1] * p[2]

(* C6: in every progress display, the overall completion under which the
   status label is shown is the mean of the two percentages, each clamped to
   100. *)
C6_OverallIsClampedMean ==
  WithSummary
    => SameFraction(display.summary.overall_pct,
                    MeanOf(ClampedPct(display.progress.current_meetups,
                                      display.progress.meetup_target),
                           ClampedPct(display.progress.current_sales,
                                      display.progress.sales_target)))

(* The tier of an overall completion, by its band. *)
TierOfBand(p) ==
  CASE AtLeast(p, 100) -> "All targets achieved"
    [] AtLeast(p, 75) /\ ~AtLeast(p, 100) -> "Excellent"
    [] AtLeast(p, 50) /\ ~AtLeast(p, 75) -> "Good progress"
    [] AtLeast(p, 25) /\ ~AtLeast(p, 50) -> "Making progress"
    [] ~AtLeast(p, 25) -> "Just getting started"

(* The tier a displayed text stands for. *)
TierShown(text) ==
  CASE text \in {"All targets achieved!",
                 "Outstanding! You've achieved all your targets!"}
         -> "All targets achieved"
    [] text \in {"Excellent progress!", "Excellent performance!",
                 "Excellent progress! You're almost there!"}
         -> "Excellent"
    [] text \in {"Good progress!", "Good progress! You're on the right track!"}
         -> "Good progress"
    [] text \in {"Making progress!", "Making progress! Keep pushing forward!"}
         -> "Making progress"
    [] text \in {"Just getting started!", "Time to accelerate! You've got this!"}
         -> "Just getting started"
    [] OTHER -> "unknown"

(* C7: at every display site the text shown is the tier of the band in which
   the site's overall completion lies: >= 100, [75, 100), [50, 75), [25, 50),
   < 25. *)
C7_TierBreakpoints ==
  /\ Shown => TierShown(display.status) = TierOfBand(display.overall_pct)
  /\ WithSummary
       => TierShown(display.summary.overall_status) =
            TierOfBand(display.summary.overall_pct)

(* C7 witness: /kpi for target (5, 1000) with meetups 2, 1, 1 and a sale of
   600: 4 / 80%, 600 / 60%, mean 70, "Good progress" in both texts. *)
C7_Witness ==
  /\ Shown /\ display.site = "kpi_command"
  /\ display.progress.current_meetups = 4
  /\ display.progress.meetup_percentage = 8000
  /\ display.progress.current_sales = 600
  /\ display.progress.sales_percentage = 6000
  /\ display.progress.meetup_records_count = 3
  /\ SameFraction(display.overall_pct, <<70, 1>>)
  /\ display.status = "Good progress! You're on the right track!"
  /\ display.summary.overall_status = "Good progress!"

----------------------------------------------------------------------------
(* Properties of the fan-out (checked under SpecAll) *)

FannedOut == result.op = "get_monthly_progress_for_all_users"

(* The rows of the Users sheet whose progress, as calculated in the call, is
   not None. *)
WithProgress ==
  {i \in 1..Len(users) :
     calculate_user_progress(targets, records, users[i].user_id, result.month,
                             result.year, result.faultsOf[users[i].user_id]) # None}

RankIn(K, i) == Cardinality({j \in K : j <= i})

(* C9: when the Users sheet could be read, the list returned has exactly one
   entry per listed user whose calculate_user_progress is not None, in the
   order of the sheet's rows, each entry being that user's progress with the
   user's id, name and role. *)
C9_FanOutInListingOrder ==
  (FannedOut /\ ~result.usersFail)
    => /\ Len(result.value) = Cardinality(WithProgress)
       /\ \A i \in WithProgress :
            LET entry == result.value[RankIn(WithProgress, i)]
            IN  /\ entry.user_id = users[i].user_id
                /\ entry.name = users[i].name
                /\ entry.role = users[i].role
                /\ entry.month = result.month /\ entry.year = result.year
                /\ entry.current_meetups =
                     SumOfRows(RowsOf(users[i].user_id, result.month,
                                      result.year, "meetup"))

(* C9 witness: Zed registered before Amy, both with a target, Amy further on:
   the list is Zed's entry then Amy's (neither alphabetical nor by
   completion). *)
C9_Witness ==
  /\ FannedOut /\ ~result.usersFail
  /\ Len(users) = 2 /\ users[1].name = "Zed" /\ users[2].name = "Amy"
  /\ Len(result.value) = 2
  /\ result.value[1].name = "Zed" /\ result.value[1].meetup_percentage = 0
  /\ result.value[2].name = "Amy" /\ result.value[2].meetup_percentage = 4000

----------------------------------------------------------------------------
(* Properties of the Targets store (checked under SpecUpsert) *)

TargetsSet == result.op = "set_monthly_targets" /\ result.value = TRUE

RowsOfKey(user_id, month, year) ==
  {i \in 1..Len(targets) :
     /\ targets[i].user_id = user_id
     /\ targets[i].month = month
     /\ targets[i].year = year}

(* C10: a set_monthly_targets whose existence check could read the sheet, on a
   key that had no row or the one row of an earlier call, leaves exactly one
   row for the key; get_monthly_targets then returns the values of this call
   with its created_date, later than the one it replaced. *)
C10_UpsertOverwrites ==
  (TargetsSet /\ result.fault = "none" /\ result.rows_before <= 1)
    => LET got == get_monthly_targets(targets, result.user_id, result.month,
                                      result.year, FALSE)
       IN  /\ got # None
           /\ got.meetup_target = result.meetup_target
           /\ got.sales_target = result.sales_target
           /\ got.created_date = result.current_date
           /\ result.before # None => got.created_date > result.before.created_date
           /\ Cardinality(RowsOfKey(result.user_id, result.month, result.year)) = 1

(* C10 witness: targets (10, 500) were stored for a key, (20, 1000) have just
   been set for it, and the one row of the key now holds (20, 1000). *)
C10_Witness ==
  /\ TargetsSet /\ result.fault = "none" /\ result.rows_before = 1
  /\ result.before # None
  /\ result.before.meetup_target = 10 /\ result.before.sales_target = 500
  /\ result.meetup_target = 20 /\ result.sales_target = 1000
  /\ \E i \in 1..Len(targets) :
       /\ targets[i].user_id = result.user_id
       /\ targets[i].meetup_target = 20 /\ targets[i].sales_target = 1000
       /\ targets[i].created_date > result.before.created_date
  /\ Cardinality(RowsOfKey(result.user_id, result.month, result.year)) = 1

(* C11: the Targets store never holds two rows for one (user_id, month, year),
   whatever set_monthly_targets calls were made and whichever of their
   existence checks could not read the store. *)
C11_AtMostOneRowPerKey ==
  \A u \in UserIds, p \in Periods :
    Cardinality(RowsOfKey(u, p.month, p.year)) <= 1

----------------------------------------------------------------------------
(* Properties of overlapping store calls (checked under SpecRace) *)

BothCompleted ==
  /\ \A c \in Callers : calls[c].pc = "done" /\ calls[c].value /\ calls[c].checked
  /\ \A c, d \in Callers :
       /\ calls[c].user_id = calls[d].user_id
       /\ calls[c].month = calls[d].month
       /\ calls[c].year = calls[d].year
       /\ calls[c].overlapped

LastWrite == result.op = "set_monthly_targets" /\ result.value

(* C12: when two set_monthly_targets calls for one key have overlapped and
   both have completed, each having read the sheet in its existence check,
   get_monthly_targets returns the values of the call that wrote last. *)
C12_LastWriteWins ==
  (BothCompleted /\ LastWrite)
    => LET got == get_monthly_targets(targets, result.user_id, result.month,
                                      result.year, FALSE)
       IN  /\ got # None
           /\ got.meetup_target = result.meetup_target
           /\ got.sales_target = result.sales_target

TargetRowsOfUser(store, u) == SelectSeq(store, LAMBDA row : row.user_id = u)

RecordRowsOfUser(ledger, u) == SelectSeq(ledger, LAMBDA row : row.user_id = u)

TargetRowsOfKey(store, u, p) ==
  SelectSeq(store, LAMBDA row : row.user_id = u /\ row.month = p.month
                                /\ row.year = p.year)

(* the store call of a step was made for this user *)
CallFor(r, u) == "user_id" \in DOMAIN r /\ r.user_id = u

CallForKey(r, u, p) ==
  /\ CallFor(r, u)
  /\ "month" \in DOMAIN r /\ r.month = p.month
  /\ "year" \in DOMAIN r /\ r.year = p.year

(* C13: every step of every interleaving leaves the target rows of each key
   other than the one the step's call was made for as they were, and leaves
   the target rows and the record rows of every other user as they were:
   none changed, dropped or duplicated. *)
C13_DisjointKeysDoNotInterfere ==
  [][\A u \in UserIds :
       /\ \A p \in Periods :
            ~CallForKey(result', u, p)
              => TargetRowsOfKey(targets', u, p) = TargetRowsOfKey(targets, u, p)
       /\ ~CallFor(result', u)
            => /\ TargetRowsOfUser(targets', u) = TargetRowsOfUser(targets, u)
               /\ RecordRowsOfUser(records', u) = RecordRowsOfUser(records, u)]_vars

(* C13 witness: a call has just overwritten the target of one user with new
   values while another conversation's call for the other user, whose row is
   also in the sheet, is in flight. *)
C13_Witness ==
  /\ LastWrite /\ result.wrote = "update"
  /\ \E i \in 1..Len(targets) :
       /\ targets[i].user_id = result.user_id
       /\ targets[i].created_date = result.current_date
  /\ \E i \in 1..Len(targets) : targets[i].user_id # result.user_id
  /\ \E c \in Callers : InFlight(c) /\ calls[c].user_id # result.user_id

----------------------------------------------------------------------------
(* Properties of registration (checked under SpecRegister) *)

Registered == result.op = "register_user"

RowsOfUser(user_id) == {i \in 1..Len(users) : users[i].user_id = user_id}

(* C14: register_user for a user_id that has a row, when its duplicate check
   could read the sheet, returns False, appends nothing and leaves the row
   get_user_by_id returns as it was; the conversation replies with the
   failure message. *)
C14_DuplicateRejected ==
  (Registered /\ result.before # None /\ FaultAt(result.plan, 0) # "check")
    => /\ result.value = "False"
       /\ Len(users) = result.rows_before
       /\ get_user_by_id(users, result.user_id, FALSE) = result.before
       /\ display.site = "registration_upline"
       /\ display.outcome = "Registration Failed"

(* C14 witness: user 42, registered as Zed, has just tried to register as Zoe
   and was rejected; the sheet still shows Zed. *)
C14_Witness ==
  /\ Registered /\ result.user_id = 42 /\ result.name = "Zoe"
  /\ result.before # None /\ result.before.name = "Zed"
  /\ result.value = "False"
  /\ get_user_by_id(users, 42, FALSE).name = "Zed"
  /\ Len(users) = result.rows_before

(* C15: the Users sheet never holds two rows for one user_id, whatever
   registrations were attempted, retried or run with a duplicate check that
   could not read the sheet. *)
C15_OneRowPerUser ==
  \A u \in UserIds : Cardinality(RowsOfUser(u)) <= 1

----------------------------------------------------------------------------
(* Properties of the KPI_Records sheet (checked under SpecLedger) *)

(* C16: every step leaves the record rows that were in the sheet where and as
   they were; the ledger after the step is the ledger before it, or that
   ledger with one new row at its end. *)
C16_AppendOnly ==
  [][\/ records' = records
     \/ /\ Len(records') = Len(records) + 1
        /\ SubSeq(records', 1, Len(records)) = records]_vars

----------------------------------------------------------------------------
(* Properties of the roles (checked under SpecAuth) *)

Gated == result.op = "require_role"

(* C17: the gate decides by the role read from the admin cache: a caller
   outside the cache is denied the admin commands with the message naming
   administrators and the command does not run, the same caller's sales
   commands run, and a caller in the cache runs every command. *)
C17_GateDecidesByRole ==
  Gated =>
    /\ (result.user_id \notin admin_cache /\ result.command \in AdminCommands)
         => /\ result.denied = <<"admin">> /\ ~result.ran
            /\ result.sent # <<>> =>
                 display.outcome = "This command is only available to administrators."
    /\ (result.user_id \notin admin_cache /\ result.command \in SalesCommands)
         => result.denied = <<>> /\ result.ran /\ display.outcome = result.command
    /\ result.user_id \in admin_cache
         => result.denied = <<>> /\ result.ran /\ display.outcome = result.command

(* C17 witness: user 42, not in the cache, has just been denied /setting,
   while a configured administrator and a roster administrator are in it. *)
C17_Witness ==
  /\ Gated /\ result.user_id = 42 /\ result.command = "/setting"
  /\ result.denied = <<"admin">>
  /\ 42 \notin admin_cache /\ 1 \in admin_cache /\ 7 \in admin_cache

(* C21: every update that reaches a role-gated command either runs the
   command or ends with the denial message for the required role sent to
   the caller. *)
C21_GateNeverDrops ==
  Gated =>
    \/ result.ran
    \/ /\ result.denied = <<result.required_role>>
       /\ result.sent = <<denial_message(result.required_role)>>
       /\ display.outcome = denial_message(result.required_role)

(* C18: after add_admin(u) returned True, u is in the cache and in the
   roster; after remove_admin(u) returned True, u is in neither. *)
C18_EditsKeepCacheAndRosterInStep ==
  /\ (result.op = "add_admin" /\ result.value)
       => result.user_id \in admin_cache /\ result.user_id \in RosterIds
  /\ (result.op = "remove_admin" /\ result.value)
       => result.user_id \notin admin_cache /\ result.user_id \notin RosterIds

(* C19: is_admin reads nothing from the Admin_Config sheet, leaves the cache
   and its initialized flag as they were, and answers whether the id was in
   the cache. *)
C19_IsAdminIsPure ==
  result.op = "is_admin"
    => /\ result.store_reads = 0
       /\ admin_cache = result.cache_before
       /\ cache_initialized = result.initialized_before
       /\ result.value = (result.user_id \in result.cache_before)

(* C19, amended: once the cache has been initialized, is_admin reads nothing
   from the Admin_Config sheet, changes no state and answers whether the id
   is in the cache; on a cache that was not initialized yet it first
   initializes it with one read of the sheet and answers by the cache it
   then holds. *)
C19_IsAdminIsPureOnceInitialized ==
  result.op = "is_admin"
    => /\ result.value = (result.user_id \in admin_cache)
       /\ cache_initialized
       /\ result.initialized_before
            => /\ result.store_reads = 0
               /\ admin_cache = result.cache_before
       /\ ~result.initialized_before => result.store_reads = 1

(* C19 witness: is_admin(7) has just answered True from an initialized
   cache that held the roster administrator 7, without a read. *)
C19_Witness ==
  /\ result.op = "is_admin" /\ result.user_id = 7 /\ result.value
  /\ result.initialized_before /\ result.store_reads = 0
  /\ 7 \in result.cache_before /\ 7 \in RosterIds

(* C20: after _initialize_admin_cache or refresh_admin_cache returned True,
   the cache is the union of the configured ids and the ids in the roster. *)
C20_CacheIsUnion ==
  (result.op \in {"_initialize_admin_cache", "refresh_admin_cache"} /\ result.value)
    => admin_cache = EnvAdminIds \cup RosterIds

----------------------------------------------------------------------------
(* Properties of the conversations (checked under SpecChats, SpecSales,
   SpecRegistration, SpecValidate, SpecFields and SpecSetting) *)

(* C22: every meetup record written through the submission conversation has
   a whole number from 1 to 100 as its value, and a text that is not such a
   number (0, a negative number, a fraction, a number above 100, no number)
   is answered with the complaint, stores nothing and leaves the
   conversation waiting for the count. *)
C22_MeetupValuesInRange ==
  /\ \A i \in 1..Len(records) :
       records[i].record_type = "meetup" => records[i].value \in 1..100
  /\ (result.op = "meetup_client_count" /\ result.update.deliverable
      /\ (py_int(result.update.text) = ValueError
          \/ py_int(result.update.text).value \notin 1..100))
       => /\ result.check # "ok"
          /\ display.outcome = result.check
          /\ conversations[<<"meetup_submission_conversation", result.update.chat,
                             result.update.user>>] = "MEETUP_CLIENT_COUNT"

(* C22 witness: the photo of a meetup submission has just been taken and the
   record with the count 100, the largest the conversation lets through,
   has been written as the last row of the sheet. *)
C22_Witness ==
  /\ result.op = "meetup_photo_upload" /\ result.check = "ok" /\ result.recorded
  /\ result.value = 100
  /\ Len(records) = MaxRecords
  /\ records[Len(records)].record_type = "meetup" /\ records[Len(records)].value = 100

(* C23: every sale record written through the submission conversation has a
   value above 0 and at most 100,000. *)
C23_SaleValuesInRange ==
  \A i \in 1..Len(records) :
    records[i].record_type = "sale" =>
      records[i].value > 0 /\ records[i].value <= 100000

(* the characters the specification allows in a phone number *)
PhoneCharacters == {Digits[d] : d \in 1..10} \cup {" ", "+", "-", "(", ")"}

PhoneAcceptable(phone) ==
  /\ phone # <<>>
  /\ \A i \in 1..Len(phone) : phone[i] \in PhoneCharacters
  /\ Len(phone) >= 7 /\ Len(phone) <= 20
  /\ \E i \in 1..Len(phone) : isdigit(phone[i])

(* C24: every phone number stored for a user by the registration is
   non-empty, made of digits, spaces, +, -, ( and ) only, 7 to 20 characters
   long and holds a digit. *)
C24_StoredPhonesValid ==
  \A i \in 1..Len(users) :
    "phone" \in DOMAIN users[i] => PhoneAcceptable(users[i].phone)

(* C25: validation is a pure function of its input: a validation that
   follows one of the same input gives the same verdict, and a validation
   leaves the object it was given as it was. *)
C25_ValidationIsPure ==
  validated.class # "none" =>
    /\ validated.previous # <<>> => validated.previous[1] = validated.accepted
    /\ validated.self = validated.input

(* the callbacks that take the text of a field *)
FieldCallbacks ==
  {"registration_name", "registration_nationality", "registration_phone",
   "registration_upline", "meetup_client_count", "sales_amount_input",
   "setting_input_meetup", "setting_input_sales"}

(* C26: in the registration, the meetup submission, the sale submission and
   the target setting, a step that takes a text failing the check of its
   field leaves every conversation in its state and every dictionary as it
   was, and, when the reply can be sent, answers with the complaint of that
   field; a step of a field callback that changes a conversation's state
   took a text that passed the check. *)
C26_FailedFieldStays ==
  [][result'.op \in FieldCallbacks =>
       /\ result'.check # "ok" =>
            /\ conversations' = conversations
            /\ context_user_data' = context_user_data
            /\ result'.update.deliverable => display'.outcome = result'.check
       /\ conversations' # conversations => result'.check = "ok"]_vars

(* C26 witness: the administrator has chosen a representative, answered the
   first step of the target setting with a text that is no number from 0 to
   1000, and has been asked again: the conversation still waits for the
   meetup target and no meetup target is stored. *)
C26_Witness ==
  /\ result.op = "setting_input_meetup" /\ result.check # "ok"
  /\ result.update.deliverable
  /\ result.state_before = "SETTING_INPUT_MEETUP"
  /\ conversations[<<"admin_setting", "private", 1>>] = "SETTING_INPUT_MEETUP"
  /\ display.outcome = result.check
  /\ "selected_user_id" \in DOMAIN context_user_data[1]
  /\ "meetup_target" \notin DOMAIN context_user_data[1]

(* C27: a user none of whose conversations is under way has nothing left
   in context.user_data: whatever the conversations stored was removed when
   they ended. *)
C27_EndedConversationsKeepNothing ==
  \A u \in ConvUsers :
    (\A h \in ConversationNames, c \in Chats : conversations[<<h, c, u>>] = END)
      => DOMAIN context_user_data[u] = {}

(* C28: while the meetup submission of user 7 in one chat holds the count
   it collected and waits for the photo, an update from another chat leaves
   that count as it is: it is neither overwritten nor removed. *)
C28_OtherChatLeavesCount ==
  [][\A c \in Chats :
       (/\ result'.update.chat # c
        /\ conversations[<<"meetup_submission_conversation", c, 7>>] = "MEETUP_PHOTO_UPLOAD"
        /\ "meetup_client_count" \in DOMAIN context_user_data[7])
         => /\ "meetup_client_count" \in DOMAIN context_user_data'[7]
            /\ context_user_data'[7]["meetup_client_count"] =
                 context_user_data[7]["meetup_client_count"]]_vars

----------------------------------------------------------------------------
(* retry_on_failure of src/error_handler.py.  Delays are fractions of a
   second, <<numerator, denominator>>; a call is given the outcome of each run of the
   wrapped function: it returns, it raises an exception of the retried
   kinds, it raises one of them that is not retried (a 4xx answer other than
   429, a blocked chat), or it raises an exception of another kind. *)

MaxRetries == 3

Fraction(num, den) == <<num, den>>

Times(a, b) == Fraction(a[1] * b[1], a[2] * b[2])

RECURSIVE Power(_, _)
Power(a, k) == IF k = 0 THEN Fraction(1, 1) ELSE Times(a, Power(a, k - 1))

AttemptOutcomes == {"returns", "transient", "not_retried", "other"}

(* the delay that stays what it was *)
NextDelay_constant(current_delay, backoff) == current_delay

(* current_delay *= backoff *)
NextDelay(current_delay, backoff) == Times(current_delay, backoff)

(* the for loop of the wrapper from the attempt-th run on: how it ends, the
   number of runs of the wrapped function and the sleeps in order *)
RECURSIVE retry_attempts(_, _, _, _, _, _)
retry_attempts(retries, backoff, outcomes, attempt, current_delay, slept) ==
  IF attempt > retries
  THEN [outcome |-> "raised", invocations |-> attempt, slept |-> slept,
        last_exception |-> attempt]
  ELSE LET outcome == outcomes[attempt + 1]
       IN  IF outcome = "returns"
           THEN [outcome |-> "returned", attempt |-> attempt,
                 invocations |-> attempt + 1, slept |-> slept]
           ELSE IF outcome \in {"other", "not_retried"}
           THEN [outcome |-> "raised", invocations |-> attempt + 1, slept |-> slept,
                 last_exception |-> attempt + 1]
           ELSE IF attempt < retries
           THEN retry_attempts(retries, backoff, outcomes, attempt + 1,
                               NextDelay(current_delay, backoff),
                               Append(slept, current_delay))
           ELSE retry_attempts(retries, backoff, outcomes, attempt + 1,
                               current_delay, slept)

retry_on_failure(retries, delay, backoff, outcomes) ==
  retry_attempts(retries, backoff, outcomes, 0, delay, <<>>)

(* retry_google_api and retry_telegram_api: delay and backoff *)
RetryDecorators ==
  {[name |-> "retry_google_api", delay |-> Fraction(1, 1), backoff |-> Fraction(2, 1)],
   [name |-> "retry_telegram_api", delay |-> Fraction(1, 2), backoff |-> Fraction(3, 2)]}

(* the calls of functions wrapped by one of the decorators: the decorator,
   its max_retries and what each run of the function does *)
RetriedCalls ==
  {[op |-> "call", decorator |-> decorator, max_retries |-> retries,
    outcomes |-> outcomes] :
     decorator \in RetryDecorators, retries \in 0..MaxRetries,
     outcomes \in [1..(MaxRetries + 1) -> AttemptOutcomes]}

InitRetry ==
  /\ conversations = NoConversations
  /\ context_user_data = NoUserData
  /\ validated = NotValidated
  /\ lock_file = [p \in Instances |-> NoFile]
  /\ lock_path = NoFile
  /\ main_at = [p \in Instances |-> "stopped"]
  /\ calls = [c \in Callers |-> Idle]
  /\ admin_sheet = <<>>
  /\ admin_cache = {}
  /\ cache_initialized = FALSE
  /\ records_sheet = "headed"
  /\ users = <<>>
  /\ targets = <<>>
  /\ records = <<>>
  /\ now = 1
  /\ clock = 0
  /\ result \in RetriedCalls
  /\ display = NoDisplay

(* the call is made *)
RetriedCall ==
  /\ result.op = "call"
  /\ result' = [op |-> "retry_on_failure", decorator |-> result.decorator.name,
                max_retries |-> result.max_retries,
                delay |-> result.decorator.delay,
                backoff |-> result.decorator.backoff,
                outcomes |-> result.outcomes,
                value |-> retry_on_failure(result.max_retries,
                                           result.decorator.delay,
                                           result.decorator.backoff,
                                           result.outcomes)]
  /\ UNCHANGED <<users, targets, records, now, clock, display, calls,
                 admin_sheet, admin_cache, cache_initialized, records_sheet,
                 conversations, context_user_data, validated,
                 lock_file, lock_path, main_at>>

NextRetry == RetriedCall

SpecRetry == InitRetry /\ [][NextRetry]_vars

(* What a run of the wrapped function ends with: it returns, or raises an
   exception of a class, with the status of its response when it is an
   HttpError and the phrases its message contains, in lower case *)
Returns == [class |-> "none", status |-> 0, message |-> {}]

Raises ==
  { [class |-> "HttpError", status |-> 404, message |-> {}],
    [class |-> "HttpError", status |-> 429, message |-> {}],
    [class |-> "HttpError", status |-> 500, message |-> {}],
    [class |-> "TimedOut", status |-> 0, message |-> {"timed out"}],
    [class |-> "NetworkError", status |-> 0, message |-> {"chat not found"}],
    [class |-> "Forbidden", status |-> 0, message |-> {"blocked"}],
    [class |-> "ValueError", status |-> 0, message |-> {}] }

(* the classes an exception is an instance of *)
Bases(class) ==
  CASE class = "TimedOut" -> {"TimedOut", "NetworkError", "TelegramError"}
    [] class = "NetworkError" -> {"NetworkError", "TelegramError"}
    [] class = "Forbidden" -> {"Forbidden", "TelegramError"}
    [] OTHER -> {class}

isinstance(e, classes) == Bases(e.class) \cap classes # {}

(* the exceptions tuples of retry_google_api and retry_telegram_api *)
exceptions(decorator) ==
  IF decorator = "retry_google_api"
  THEN {"HttpError", "ConnectionError", "TimeoutError"}
  ELSE {"NetworkError", "TimedOut"}

(* every caught exception is tried again *)
AttemptOutcome_retryAll(decorator, e) ==
  IF e = Returns THEN "returns"
  ELSE IF ~isinstance(e, exceptions(decorator)) THEN "other"
  ELSE "transient"

(* one run of the loop body: the function returned, the exception is not
   one of the except clause, the loop breaks, or the loop goes on *)
AttemptOutcome(decorator, e) ==
  IF e = Returns THEN "returns"
  ELSE IF ~isinstance(e, exceptions(decorator)) THEN "other"
  ELSE IF /\ isinstance(e, {"HttpError"})
          /\ 400 <= e.status /\ e.status < 500 /\ e.status # 429
  THEN "not_retried"
  ELSE IF /\ isinstance(e, {"TelegramError"})
          /\ e.message \cap {"blocked", "chat not found", "unauthorized"} # {}
  THEN "not_retried"
  ELSE "transient"

(* a call by what each run of the function ends with *)
RaisingCall_of(decorator, retries, runs) ==
  [op |-> "call", decorator |-> decorator.name, max_retries |-> retries,
   delay |-> decorator.delay, backoff |-> decorator.backoff, runs |-> runs]

InitRaise ==
  /\ conversations = NoConversations
  /\ context_user_data = NoUserData
  /\ validated = NotValidated
  /\ lock_file = [p \in Instances |-> NoFile]
  /\ lock_path = NoFile
  /\ main_at = [p \in Instances |-> "stopped"]
  /\ calls = [c \in Callers |-> Idle]
  /\ admin_sheet = <<>>
  /\ admin_cache = {}
  /\ cache_initialized = FALSE
  /\ records_sheet = "headed"
  /\ users = <<>>
  /\ targets = <<>>
  /\ records = <<>>
  /\ now = 1
  /\ clock = 0
  /\ \E decorator \in RetryDecorators, retries \in 0..MaxRetries :
       \E runs \in [1..(retries + 1) -> Raises \cup {Returns}] :
         result = RaisingCall_of(decorator, retries, runs)
  /\ display = NoDisplay

RaisingCall ==
  /\ result.op = "call"
  /\ result' = [op |-> "retry_on_failure", decorator |-> result.decorator,
                max_retries |-> result.max_retries, runs |-> result.runs,
                value |-> retry_on_failure(
                            result.max_retries, result.delay, result.backoff,
                            [a \in 1..Len(result.runs) |->
                               AttemptOutcome(result.decorator, result.runs[a])])]
  /\ UNCHANGED <<users, targets, records, now, clock, display, calls,
                 admin_sheet, admin_cache, cache_initialized, records_sheet,
                 conversations, context_user_data, validated,
                 lock_file, lock_path, main_at>>

NextRaise == RaisingCall

SpecRaise == InitRaise /\ [][NextRaise]_vars

(* C29: a call through retry_on_failure runs the wrapped function at most
   max_retries + 1 times and ends: it returns what the first run that
   returned gave, or it raises; it has slept once before each run after the
   first, delay * backoff^k before run k + 2 (k = 0 before the first
   retry). *)
C29_RetriesBounded ==
  result.op = "retry_on_failure" =>
    LET r == result.value
    IN  /\ r.invocations >= 1 /\ r.invocations <= result.max_retries + 1
        /\ r.outcome \in {"returned", "raised"}
        /\ r.outcome = "returned" =>
             /\ result.outcomes[r.attempt + 1] = "returns"
             /\ r.invocations = r.attempt + 1
             /\ \A a \in 1..r.attempt : result.outcomes[a] = "transient"
        /\ r.outcome = "raised" =>
             \A a \in 1..r.invocations : result.outcomes[a] # "returns"
        /\ Len(r.slept) = r.invocations - 1
        /\ \A k \in 1..Len(r.slept) :
             SameFraction(r.slept[k], Times(result.delay, Power(result.backoff, k - 1)))

(* C29 witness: a function under retry_telegram_api with max_retries 3 timed
   out four times: it ran four times, the wrapper slept 1/2, 3/4 and 9/8 of
   a second and raised. *)
C29_Witness ==
  /\ result.op = "retry_on_failure" /\ result.decorator = "retry_telegram_api"
  /\ result.max_retries = 3
  /\ \A a \in 1..4 : result.outcomes[a] = "transient"
  /\ result.value.outcome = "raised" /\ result.value.invocations = 4
  /\ Len(result.value.slept) = 3
  /\ SameFraction(result.value.slept[1], Fraction(1, 2))
  /\ SameFraction(result.value.slept[2], Fraction(3, 4))
  /\ SameFraction(result.value.slept[3], Fraction(9, 8))

(* C30: a set_monthly_targets whose write met one failure of the store, the
   store answering again afterwards, is tried again and reports success. *)
C30_TransientFailureRetried ==
  (result.op = "set_monthly_targets" /\ result.fault = "write") => result.value = TRUE

----------------------------------------------------------------------------
(* Properties of the submissions, the reads and the target setting (checked
   under SpecUploads, SpecLedger, SpecSetting and SpecRetry) *)

WellFormedLink(link) ==
  /\ \/ StartsWith(link, <<"h", "t", "t", "p", ":", "/", "/">>)
     \/ StartsWith(link, <<"h", "t", "t", "p", "s", ":", "/", "/">>)
  /\ Len(link) <= 500

PhotoCallbacks == {"meetup_photo_upload", "sales_photo_upload"}

(* C31: every row of the Record Store holds a photo link that is an http(s)
   URL of at most 500 characters; the store changes only in a step of a
   photo callback that took a photo whose upload returned the link, and
   then by one appended row holding that link; a step of a photo callback
   whose message had no photo, or whose upload failed or was never made,
   leaves the store as it was. *)
C31_RecordsFollowUploads ==
  [][/\ \A i \in 1..Len(records') : WellFormedLink(records'[i].photo_link)
     /\ records' # records =>
          /\ result'.op \in PhotoCallbacks
          /\ IsPhoto(result'.update)
          /\ result'.upload = "link"
          /\ Len(records') = Len(records) + 1
          /\ SubSeq(records', 1, Len(records)) = records
          /\ records'[Len(records')].photo_link = PhotoLink
     /\ (result'.op \in PhotoCallbacks /\ result'.upload # "link") =>
          records' = records]_vars

(* C31 witness: a sale submission has just ended with its photo uploaded
   and its row, holding the link, appended after a meetup row. *)
C31_Witness ==
  /\ result.op = "sales_photo_upload" /\ result.upload = "link" /\ result.recorded
  /\ Len(records) = 2
  /\ records[1].record_type = "meetup"
  /\ records[2].record_type = "sale" /\ records[2].photo_link = PhotoLink

LastRecord == records[Len(records)]

(* C32: a calculate_user_progress whose reads succeed, made right after a
   record of the same user and month was appended, answers with a progress
   (when the user has a target) whose sum for the record's type is the
   record's value added to the earlier rows of that user, month and type;
   made right after a set_monthly_targets for the same user and month, it
   answers with the two targets just written. *)
C32_ProgressIsRecomputed ==
  [][(result'.op = "calculate_user_progress" /\ result'.faults = {}) =>
       /\ (/\ result.op = "record_kpi_submission" /\ result.value = TRUE
           /\ LastRecord.user_id = result'.user_id
           /\ LastRecord.record_date = [month |-> result'.month, year |-> result'.year]
           /\ HasTargetRow(result'.user_id, result'.month, result'.year))
            => /\ result'.value # None
               /\ (IF LastRecord.record_type = "meetup"
                    THEN result'.value.current_meetups
                    ELSE result'.value.current_sales)
                    = LastRecord.value
                      + SumOfRows(RowsOf(result'.user_id, result'.month, result'.year,
                                         LastRecord.record_type) \ {Len(records)})
       /\ (/\ result.op = "set_monthly_targets" /\ result.value = TRUE
           /\ result.user_id = result'.user_id
           /\ result.month = result'.month /\ result.year = result'.year)
            => /\ result'.value # None
               /\ result'.value.meetup_target = result.meetup_target
               /\ result'.value.sales_target = result.sales_target]_vars

(* C32 witness: progress computed for a user with a target whose last
   record of the month, the second meetup row of that user and month, is the
   last row of the ledger: both rows are in the sum. *)
C32_Witness ==
  /\ Calculated /\ result.faults = {} /\ result.value # None
  /\ Len(records) = 2
  /\ \A i \in 1..2 :
       /\ records[i].user_id = result.user_id
       /\ records[i].record_type = "meetup"
       /\ records[i].record_date = [month |-> result.month, year |-> result.year]
  /\ result.value.current_meetups = records[1].value + records[2].value
  /\ result.value.meetup_records_count = 2

(* the places in the ledger of the rows a read with these filters asks for *)
Asked(user_id, month, year, record_type) ==
  {i \in 1..Len(records) :
     /\ records[i].user_id = user_id
     /\ month = <<>> \/ records[i].record_date.month = month[1]
     /\ year = <<>> \/ records[i].record_date.year = year[1]
     /\ record_type = <<>> \/ records[i].record_type = record_type[1]}

(* C33: a get_user_kpi_records whose read of the sheet succeeds returns the
   rows of the ledger that are the user's and match every filter given, each
   once and in the order of the ledger: its k-th record is the k-th such
   row. *)
C33_ReadIsFilteredSubsequence ==
  (result.op = "get_user_kpi_records" /\ ~result.readFails) =>
    LET I == Asked(result.user_id, result.month, result.year, result.record_type)
    IN  /\ Len(result.value) = Cardinality(I)
        /\ \A k \in 1..Len(result.value) :
             \E i \in I : /\ Cardinality({j \in I : j <= i}) = k
                          /\ result.value[k] = records[i]

(* C33 witness: a read of the meetups of March, no year given, for a user
   whose ledger holds a meetup of March 2025 followed by one of March 2024:
   the two rows are returned, the later activity first, as appended. *)
C33_Witness ==
  /\ result.op = "get_user_kpi_records" /\ ~result.readFails
  /\ result.month = <<3>> /\ result.year = <<>> /\ result.record_type = <<"meetup">>
  /\ Len(records) = 2
  /\ Len(result.value) = 2
  /\ result.value[1].record_date.year = 2025
  /\ result.value[2].record_date.year = 2024


-----------------------------------------------------------------------------
(* The process lock of main.py: one file, kpi_bot.lock, in the working
   directory, locked with flock by the instance that runs.  lock_path is the
   file the path names (NoFile when there is none), lock_file[p] is the file
   instance p holds open and locked (NoFile for Python's None), and main_at[p]
   is the place instance p has reached in main(). *)

FilesInUse == {lock_path} \cup {lock_file[p] : p \in Instances}

(* open(path, 'w') creates the file when the path names none *)
NewFile == CHOOSE file \in 1..(MaxInstances + 1) : file \notin FilesInUse

Holders == {p \in Instances : lock_file[p] # NoFile}

(* flock(LOCK_EX | LOCK_NB) is granted when no other open file description
   holds a lock on the same file *)
flock_granted(file, p) == \A q \in Instances \ {p} : lock_file[q] # file

(* What release_process_lock leaves in lock_file *)
released_kept(file) == file

released(file) == NoFile

LockStep(p, op, at) ==
  /\ main_at' = [main_at EXCEPT ![p] = at]
  /\ result' = [op |-> op, instance |-> p, at_before |-> main_at[p],
                held_before |-> lock_file[p] # NoFile]
  /\ UNCHANGED <<users, targets, records, now, clock, display, calls,
                 admin_sheet, admin_cache, cache_initialized, records_sheet,
                 conversations, context_user_data, validated>>

(* main() starts and calls acquire_process_lock; when the lock is refused
   main returns, and its finally clause finds lock_file None *)
acquire_process_lock(p) ==
  /\ main_at[p] = "stopped"
  /\ LET file == IF lock_path = NoFile THEN NewFile ELSE lock_path
     IN  /\ lock_path' = file
         /\ IF flock_granted(file, p)
            THEN /\ lock_file' = [lock_file EXCEPT ![p] = file]
                 /\ LockStep(p, "acquire_process_lock", "acquired")
            ELSE /\ UNCHANGED lock_file
                 /\ LockStep(p, "acquire_process_lock", "stopped")

(* signal.signal(SIGINT/SIGTERM, signal_handler) and atexit.register *)
RegisterHandlers(p) ==
  /\ main_at[p] = "acquired"
  /\ LockStep(p, "register", "startup")
  /\ UNCHANGED <<lock_file, lock_path>>

(* SIGTERM before the handlers are registered ends the process; the kernel
   closes its descriptors, and the file stays *)
Terminated(p) ==
  /\ main_at[p] = "acquired"
  /\ lock_file' = [lock_file EXCEPT ![p] = NoFile]
  /\ LockStep(p, "SIGTERM", "stopped")
  /\ UNCHANGED lock_path

(* A return or an exception inside main's try: the missing token, the failed
   initialisation of auth, the unhealthy services, an exception *)
StartupAbort(p) ==
  /\ main_at[p] \in {"acquired", "startup"}
  /\ LockStep(p, "abort", "finally")
  /\ UNCHANGED <<lock_file, lock_path>>

run_polling(p) ==
  /\ main_at[p] = "startup"
  /\ LockStep(p, "run_polling", "polling")
  /\ UNCHANGED <<lock_file, lock_path>>

(* run_polling returns or raises *)
PollingEnds(p) ==
  /\ main_at[p] = "polling"
  /\ LockStep(p, "stop", "finally")
  /\ UNCHANGED <<lock_file, lock_path>>

(* SIGINT or SIGTERM once signal_handler is registered; one that arrives
   while release_process_lock is between closing the file and removing it
   finds lock_file None and ends the process with sys.exit *)
signal_handler(p) ==
  /\ main_at[p] \in {"startup", "polling", "finally", "remove"}
  /\ LockStep(p, "signal_handler",
              IF main_at[p] = "remove" THEN "stopped" ELSE "signal_handler")
  /\ UNCHANGED <<lock_file, lock_path>>

(* release_process_lock up to lock_file = None: the flock is dropped and the
   file closed *)
Unlock(p) ==
  /\ main_at[p] \in {"finally", "signal_handler"}
  /\ IF lock_file[p] # NoFile
     THEN /\ lock_file' = [lock_file EXCEPT ![p] = released(lock_file[p])]
          /\ LockStep(p, "release_process_lock", "remove")
     ELSE /\ UNCHANGED lock_file
          /\ LockStep(p, "release_process_lock", "stopped")
  /\ UNCHANGED lock_path

(* release_process_lock from there: os.remove of the path when it exists;
   then the process ends *)
RemoveLockFile(p) ==
  /\ main_at[p] = "remove"
  /\ lock_path' = NoFile
  /\ LockStep(p, "remove", "stopped")
  /\ UNCHANGED lock_file

ExitStep(p) ==
  \/ RegisterHandlers(p)
  \/ StartupAbort(p)
  \/ run_polling(p)
  \/ Unlock(p)
  \/ RemoveLockFile(p)

NextLock ==
  \E p \in Instances :
    \/ acquire_process_lock(p)
    \/ RegisterHandlers(p)
    \/ Terminated(p)
    \/ StartupAbort(p)
    \/ run_polling(p)
    \/ PollingEnds(p)
    \/ signal_handler(p)
    \/ Unlock(p)
    \/ RemoveLockFile(p)

SpecLock == Init /\ [][NextLock]_vars

(* C34: at any moment at most one instance holds the lock, and an instance
   whose acquisition was refused is not polling *)
C34_OneHolder ==
  /\ Cardinality(Holders) <= 1
  /\ \A p \in Instances : main_at[p] = "polling" => lock_file[p] # NoFile


(* Every step of an instance between the acquisition and the end of the
   process is a step of its own code and is taken in time; how long the
   polling lasts, and whether a signal comes, is the environment's choice *)
SpecLockFair ==
  /\ Init
  /\ [][NextLock]_vars
  /\ \A p \in Instances : WF_vars(ExitStep(p))

Exiting(p) == main_at[p] \in {"finally", "signal_handler"}

(* C40: an instance that holds the lock and has begun to leave main, by a
   return, an exception or a signal, reaches the end of the process with the
   lock released; and no instance is ever at rest with the lock held *)
C40_LockReleasedOnExit ==
  /\ \A p \in Instances :
       [](Exiting(p) => <>(main_at[p] = "stopped" /\ lock_file[p] = NoFile))
  /\ [](\A p \in Instances : main_at[p] = "stopped" => lock_file[p] = NoFile)

C40_Witness ==
  /\ result.op = "release_process_lock"
  /\ result.at_before = "signal_handler"
  /\ result.held_before
  /\ lock_file[result.instance] = NoFile


-----------------------------------------------------------------------------
(* Properties of the target setting *)

CollectedKeys == {"selected_user_id", "meetup_target", "sales_target"}

(* C35: the Target Store changes only in a step of setting_confirm that
   received confirm_targets in the confirm state; and while a /setting
   conversation waits for its confirmation, the user and the two values it
   collected are the ones the dictionary holds, so that the confirmation
   writes them and no others. *)
C35_WritesOnlyOnConfirmation ==
  [][/\ targets' # targets =>
          /\ result'.op = "setting_confirm"
          /\ result'.update.data.action = "confirm_targets"
          /\ State("admin_setting", result'.update) = "SETTING_CONFIRM"
     /\ \A c \in Chats, u \in ConvUsers :
          conversations[<<"admin_setting", c, u>>] = "SETTING_CONFIRM" =>
            \A k \in CollectedKeys \cap DOMAIN context_user_data[u] :
              /\ k \in DOMAIN context_user_data'[u]
              /\ context_user_data'[u][k] = context_user_data[u][k]]_vars


(* C36: a user who is not in the admin cache has no /setting conversation
   under way in any chat, whatever they and the administrators sent, and
   the call of set_monthly_targets that setting_confirm made was made for an
   update of a user who is in the cache. *)
C36_WritesComeThroughTheGate ==
  /\ \A c \in Chats, u \in ConvUsers \ admin_cache :
       conversations[<<"admin_setting", c, u>>] = END
  /\ (result.op = "setting_confirm" /\ "value" \in DOMAIN result)
       => result.update.user \in admin_cache

C36_Witness ==
  /\ result.op = "setting_command"
  /\ result.update.user = 7
  /\ result.update.chat = "group"
  /\ conversations[<<"admin_setting", "group", 1>>] = "SETTING_CONFIRM"
  /\ Dispatch(CallbackUpdate("group", 7, [action |-> "confirm_targets"], TRUE))
       = <<NoCallback, NoCallback>>


(* C37: when a user's /check and /setting conversations of one chat both
   wait for a selection, a representative's button pressed by that user is
   handled by setting_select_user and takes the /setting conversation to
   the meetup target. *)
C37_SelectionGoesToSetting ==
  [][\A c \in Chats, u \in ConvUsers :
       ( /\ conversations[<<"admin_check", c, u>>] = "CHECK_SELECT_USER"
         /\ conversations[<<"admin_setting", c, u>>] = "SETTING_SELECT_USER"
         /\ result'.op \in {"check_select_user", "setting_select_user"}
         /\ result'.update.chat = c
         /\ result'.update.user = u
         /\ result'.update.deliverable
         /\ result'.update.data.action = "select_user"
         /\ get_user_by_id(users, result'.update.data.user_id, FALSE) # None )
       => /\ result'.op = "setting_select_user"
          /\ conversations'[<<"admin_setting", c, u>>] = "SETTING_INPUT_MEETUP"]_vars


RegisteredIds == {users[i].user_id : i \in 1..Len(users)}

(* C38: every row of the Record Store and every row of the Target Store
   names a user who has a row in the Users store. *)
C38_RowsReferToRegisteredUsers ==
  /\ \A i \in 1..Len(records) : records[i].user_id \in RegisteredIds
  /\ \A i \in 1..Len(targets) : targets[i].user_id \in RegisteredIds


-----------------------------------------------------------------------------
(* Properties of the retries *)

(* the errors the claim calls non-transient, for a call under a decorator *)
NonTransient(decorator, e) ==
  \/ e.class = "HttpError" /\ e.status \in 400..499 /\ e.status # 429
  \/ "TelegramError" \in Bases(e.class)
       /\ \E phrase \in {"blocked", "chat not found", "unauthorized"} : phrase \in e.message
  \/ e # Returns /\ Bases(e.class) \cap exceptions(decorator) = {}

(* C39: when a run of the wrapped function raises a non-transient error the
   function is not run again and that exception is the one raised; when the
   first run does, the function ran exactly once. *)
C39_NonTransientNotRetried ==
  (result.op = "retry_on_failure" /\ "runs" \in DOMAIN result) =>
    \A a \in 1..result.value.invocations :
      NonTransient(result.decorator, result.runs[a]) =>
        /\ result.value.invocations = a
        /\ result.value.outcome = "raised"
        /\ result.value.last_exception = a

(* C39 witness: a function under retry_google_api with three retries whose
   first run got a 404: one run, no sleep, the 404 raised. *)
C39_Witness ==
  /\ result.op = "retry_on_failure" /\ "runs" \in DOMAIN result
  /\ result.decorator = "retry_google_api" /\ result.max_retries = 3
  /\ result.runs[1].class = "HttpError" /\ result.runs[1].status = 404
  /\ result.value.invocations = 1
  /\ result.value.outcome = "raised"
  /\ result.value.last_exception = 1
  /\ result.value.slept = <<>>

=============================================================================
